---- MODULE Spec2Model ----
(***************************************************************************)
(* recipekeeper-api: the request router (src/utils/router.js), the recipe  *)
(* domain service (services/recipeService.js) over the Recipe schema       *)
(* (models/Recipe.js), the cached database connection (utils/db.mjs), the  *)
(* recipe controller (controllers/recipeController.js), the Lambda entry   *)
(* point (handler.js) and the upload service (services/uploadService.js).  *)
(*                                                                         *)
(* Specifications: RouterSpec (the router), RecipeSpec (addRecipe over the *)
(* inputs that exercise validation and normalisation), JsonSpec (addRecipe *)
(* over inputs as a JSON body can carry them), CatalogSpec (the three      *)
(* service operations over a small catalog), TagSpec (a recipe created     *)
(* with tags and listed by one of them), DbSpec (concurrent callers of     *)
(* getDb), CacheSpec (getDb and closeDb), ControllerSpec (createRecipe,    *)
(* getRecipe and getAllRecipes over the service), HandlerSpec (one Lambda  *)
(* invocation) and UploadSpec (generatePresignedUploadUrl).                *)
(*                                                                         *)
(* Strings the code inspects character by character (route patterns,      *)
(* request paths, tags) are sequences of one-character strings; strings    *)
(* the code only compares or concatenates (methods, messages) are TLA+     *)
(* strings.  An absent (undefined / null / '') method is "" and an absent  *)
(* path is << >>: both are falsy for the || of router.js:20-21.            *)
(*                                                                         *)
(* Route patterns and paths are written over "/", letters, "{", "}" and    *)
(* ".": of the characters that mean something to the regular expression    *)
(* router.js:35 compiles the pattern into, "." is the one modelled.        *)
(***************************************************************************)
EXTENDS Integers, Sequences, FiniteSets, TLC

VARIABLES
    routes,      \* Router.routes: sequence of [method, path, handler]
    pc,          \* position of the one request in flight: idle/awaiting/done
    event0,      \* the request object as route() received it
    event,       \* the request object now (route() mutates it in place)
    calls,       \* handler invocations of this request:
                 \*   [route, handler, arg, answer]
    outcome,     \* how route() settled: [kind, response, error]
    recipeData,  \* addRecipe: the caller's input object (mutated in place)
    input0,      \* addRecipe: the input as the caller passed it
    saves,       \* documents handed to Recipe.prototype.save by this call
    result,      \* how the service call settled
    store,       \* the recipes collection: sequence of persisted documents
    read,        \* the getRecipeById / getAllRecipes call in flight and how
                 \*   it settled
    cache,       \* db.mjs: the module's cache object
    mongoose,    \* db.mjs: the Mongoose connection
    fetches,     \* db.mjs: requests made to the remote configuration
    acquirers,   \* db.mjs: the callers of getDb
    request,     \* controller: the event of the call in flight
    response,    \* controller: the response it returned
    lambda,      \* handler.js: the invocation in flight and how it settled
    upload       \* uploadService.js: the call in flight and how it settled

routerVars == <<routes, pc, event0, event, calls, outcome>>
recipeVars == <<recipeData, input0, saves, result, store>>
dbVars == <<cache, mongoose, fetches, acquirers>>
controllerVars == <<request, response>>
handlerVars == <<lambda>>
uploadVars == <<upload>>
vars == <<routes, pc, event0, event, calls, outcome,
          recipeData, input0, saves, result, store, read,
          cache, mongoose, fetches, acquirers, request, response,
          lambda, upload>>

(***************************************************************************)
(* Bounds of the model.                                                    *)
(***************************************************************************)
\* routes registered before AddRoute stops
MaxRoutes == 2

(***************************************************************************)
(* Text helpers.                                                           *)
(***************************************************************************)
SetMax(S) == CHOOSE m \in S : \A n \in S : n <= m

SetMin(S) == CHOOSE m \in S : \A n \in S : m <= n

(***************************************************************************)
(* Router inputs.  "r" abbreviates the literal "recipes", "s" "special".   *)
(***************************************************************************)
Methods == {"GET", "POST"}

Patterns ==
    { <<"/", "r">>,
      <<"/", "r", "/", "{", "i", "}">>,
      <<"/", "r", "/", "s">>,
      <<"/", "{", "i", "}", "/", "{", "j", "}">>,
      <<"/", "{", "i", "}", "/", "{", "i", "}">>,
      <<"/", "r", ".", "s">>,
      <<"/", "x", "{", "i", "}", "{", "j", "}">> }

Paths ==
    { <<"/", "r">>,
      <<"/", "r", "/">>,
      <<"/", "r", "/", "s">>,
      <<"/", "r", "/", "x">>,
      <<"/", "r", "/", "s", "/", "x">>,
      <<"/", "r", "/", "{", "i", "}">>,
      <<"/", "r", "x", "s">>,
      <<"/", "r", ".", "s">>,
      <<"/", "x", "r", "s">> }

NoParams == [n \in {} |-> << >>]

\* pathParameters as the caller supplies them: absent, or a mapping.
ParamInputs ==
    { [present |-> FALSE, map |-> NoParams],
      [present |-> TRUE,  map |-> NoParams],
      [present |-> TRUE,  map |-> [n \in {<<"i">>, <<"k">>} |-> <<"o">>]] }

\* The two request shapes of the API gateway, and a request carrying both.
StructuredEvent(m, p, pp) ==
    [rcMethod |-> m, rcPath |-> p, httpMethod |-> "", path |-> << >>,
     pathParameters |-> pp]

LegacyEvent(m, p, pp) ==
    [rcMethod |-> "", rcPath |-> << >>, httpMethod |-> m, path |-> p,
     pathParameters |-> pp]

Events ==
    { StructuredEvent(m, p, pp) : m \in Methods, p \in Paths, pp \in ParamInputs }
    \cup { LegacyEvent(m, p, pp) : m \in Methods, p \in Paths, pp \in ParamInputs }
    \cup { [rcMethod |-> m, rcPath |-> p, httpMethod |-> "POST",
            path |-> <<"/", "r">>, pathParameters |-> pp] :
              m \in Methods \cup {""}, p \in {<< >>, <<"/", "r", "/", "s">>},
              pp \in {[present |-> FALSE, map |-> NoParams]} }

(***************************************************************************)
(* router.js:20-21  the effective method and path                          *)
(***************************************************************************)
EffectiveMethod(e) == IF e.rcMethod # "" THEN e.rcMethod ELSE e.httpMethod

\* Fault variant of EffectivePath: the legacy field wins over requestContext.
EffectivePath_legacyFirst(e) == IF e.path # << >> THEN e.path ELSE e.rcPath

EffectivePath(e) == IF e.rcPath # << >> THEN e.rcPath ELSE e.path

(***************************************************************************)
(* router.js:34,42  /{[^}]+}/g : the placeholders of a pattern, leftmost   *)
(* first and not overlapping.  A placeholder starts at a "{" whose next    *)
(* character is not "}" and ends at the first "}" after it.                *)
(***************************************************************************)
ClosingBrace(p, i) ==
    LET closers == {k \in (i + 1)..Len(p) : p[k] = "}"}
    IN  IF closers = {} THEN 0 ELSE SetMin(closers)

PlaceholderAt(p, i) ==
    /\ p[i] = "{"
    /\ ClosingBrace(p, i) > i + 1

\* The pattern as the sequence of regular-expression atoms of line 34-35:
\* a placeholder becomes the group ([^/]+); "." is the any-character atom of
\* the regular expression; every other modelled character stands for itself.
RECURSIVE Atoms(_, _)
Atoms(p, i) ==
    IF i > Len(p) THEN << >>
    ELSE IF PlaceholderAt(p, i)
         THEN <<[type |-> "group", ch |-> "", name |-> SubSeq(p, i + 1, ClosingBrace(p, i) - 1)]>>
              \o Atoms(p, ClosingBrace(p, i) + 1)
         ELSE <<[type |-> IF p[i] = "." THEN "any" ELSE "lit", ch |-> p[i], name |-> << >>]>>
              \o Atoms(p, i + 1)

routePattern(p) == Atoms(p, 1)

\* router.js:42,45  paramNames, braces removed
paramNames(p) ==
    LET groups == SelectSeq(routePattern(p), LAMBDA a : a.type = "group")
    IN  [k \in 1..Len(groups) |-> groups[k].name]

(***************************************************************************)
(* router.js:35-39  new RegExp(`^${routePattern}$`) applied to the path:   *)
(* a backtracking match anchored at both ends.  The result is              *)
(* [ok, groups]; groups are the captures match[1..], each group greedy     *)
(* (the longest capture for which the rest of the pattern still matches).  *)
(***************************************************************************)
NoMatch == [ok |-> FALSE, groups |-> << >>]

SegmentRun(s, j) ==
    \* the longest run of non-"/" characters of s starting at j
    LET stops == {k \in j..Len(s) : s[k] = "/"}
    IN  (IF stops = {} THEN Len(s) + 1 ELSE SetMin(stops)) - j

RECURSIVE MatchAtoms(_, _, _, _)
MatchAtoms(atoms, k, s, j) ==
    IF k > Len(atoms)
    THEN IF j = Len(s) + 1 THEN [ok |-> TRUE, groups |-> << >>] ELSE NoMatch
    ELSE IF atoms[k].type = "lit"
    THEN IF j <= Len(s) /\ s[j] = atoms[k].ch
         THEN MatchAtoms(atoms, k + 1, s, j + 1) ELSE NoMatch
    ELSE IF atoms[k].type = "any"
    THEN IF j <= Len(s) THEN MatchAtoms(atoms, k + 1, s, j + 1) ELSE NoMatch
    ELSE LET fits == {n \in 1..SegmentRun(s, j) :
                         MatchAtoms(atoms, k + 1, s, j + n).ok}
         IN  IF fits = {} THEN NoMatch
             ELSE LET n == SetMax(fits)
                      rest == MatchAtoms(atoms, k + 1, s, j + n)
                  IN  [ok |-> TRUE,
                       groups |-> <<SubSeq(s, j, j + n - 1)>> \o rest.groups]

regexMatch(pattern, path) == MatchAtoms(routePattern(pattern), 1, path, 1)

(***************************************************************************)
(* router.js:26-53  the loop over this.routes: the index of the first      *)
(* route whose handler the loop reaches, 0 when the loop runs out.         *)
(***************************************************************************)
\* Fault variant of routeSelects: the method test of line 27 is dropped.
routeSelects_anyMethod(r, method, path) ==
    \/ r.path = path
    \/ regexMatch(r.path, path).ok

routeSelects(r, method, path) ==
    /\ r.method = method
    /\ \/ r.path = path
       \/ regexMatch(r.path, path).ok

\* Fault variant of scanRoutes: the last selecting route wins.
scanRoutes_last(rs, i, method, path) ==
    LET hits == {k \in i..Len(rs) :
                    /\ rs[k].method = method
                    /\ \/ rs[k].path = path
                       \/ regexMatch(rs[k].path, path).ok}
    IN  IF hits = {} THEN 0 ELSE SetMax(hits)

RECURSIVE scanRoutes(_, _, _, _)
scanRoutes(rs, i, method, path) ==
    IF i > Len(rs) THEN 0
    ELSE IF routeSelects(rs[i], method, path) THEN i
    ELSE scanRoutes(rs, i + 1, method, path)

\* Fault variant of extractParams: the previous mapping is dropped.
extractParams_fresh(e, pattern, path) ==
    LET names  == paramNames(pattern)
        groups == regexMatch(pattern, path).groups
        named  == {names[k] : k \in 1..Len(names)}
    IN  [present |-> TRUE,
         map |-> [n \in named |->
                    groups[SetMax({k \in 1..Len(names) : names[k] = n})]]]

\* router.js:41-48  pathParameters after the extraction: the previous
\* mapping (or {}), then one assignment per placeholder in pattern order.
extractParams(e, pattern, path) ==
    LET base   == IF e.pathParameters.present THEN e.pathParameters.map ELSE NoParams
        names  == paramNames(pattern)
        groups == regexMatch(pattern, path).groups
        named  == {names[k] : k \in 1..Len(names)}
        last(n) == SetMax({k \in 1..Len(names) : names[k] = n})
    IN  [present |-> TRUE,
         map |-> [n \in (DOMAIN base) \cup named |->
                    IF n \in named THEN groups[last(n)] ELSE base[n]]]

\* Fault variant of eventForHandler: the extraction also runs on an exact match.
eventForHandler_alwaysExtract(e, r, path) ==
    [e EXCEPT !.pathParameters = extractParams(e, r.path, path)]

\* router.js:29-50  the request object the selected handler is called with
eventForHandler(e, r, path) ==
    IF r.path = path THEN e
    ELSE [e EXCEPT !.pathParameters = extractParams(e, r.path, path)]

\* router.js:56-65
NotFoundResponse ==
    [statusCode |-> 404,
     headers |-> [contentType |-> "application/json", allowOrigin |-> "*"],
     body |-> "{\"error\":\"Route non trouvée\"}"]

\* What a registered handler may answer, and how it may fail.
HandlerResponses ==
    { [statusCode |-> 200,
       headers |-> [contentType |-> "application/json", allowOrigin |-> "*"],
       body |-> "{\"data\":[]}"] }

HandlerErrors == {"Handler error", "Database error"}

NoEvent == StructuredEvent("", << >>, [present |-> FALSE, map |-> NoParams])

NoResponse == [statusCode |-> 0,
               headers |-> [contentType |-> "", allowOrigin |-> ""],
               body |-> ""]

Pending == [kind |-> "pending", response |-> NoResponse, error |-> ""]

Returned(resp) == [kind |-> "returned", response |-> resp, error |-> ""]

Threw(err) == [kind |-> "threw", response |-> NoResponse, error |-> err]

(***************************************************************************)
(* Router actions.                                                         *)
(***************************************************************************)
\* router.js:12-14.  Every registration passes its own callable, named here
\* by its position in the list.
addRoute(method, path) ==
    Append(routes, [method |-> method, path |-> path, handler |-> Len(routes) + 1])

AddRoute ==
    /\ pc = "idle"
    /\ Len(routes) < MaxRoutes
    /\ \E method \in Methods, path \in Patterns :
          routes' = addRoute(method, path)
    /\ UNCHANGED <<pc, event0, event, calls, outcome>>
    /\ UNCHANGED <<recipeVars, read, dbVars, controllerVars, handlerVars, uploadVars>>

\* router.js:19-66 up to the await of the handler (or the 404 return).
route(e) ==
    LET method == EffectiveMethod(e)
        path   == EffectivePath(e)
        i      == scanRoutes(routes, 1, method, path)
    IN  /\ event0' = e
        /\ IF i = 0
           THEN /\ event' = e
                /\ calls' = << >>
                /\ outcome' = Returned(NotFoundResponse)
                /\ pc' = "done"
           ELSE /\ event' = eventForHandler(e, routes[i], path)
                /\ calls' = <<[route |-> i, handler |-> routes[i].handler,
                               arg |-> eventForHandler(e, routes[i], path),
                               answer |-> Pending]>>
                /\ outcome' = Pending
                /\ pc' = "awaiting"
        /\ UNCHANGED routes

Route ==
    /\ pc = "idle"
    /\ \E e \in Events : route(e)
    /\ UNCHANGED <<recipeVars, read, dbVars, controllerVars, handlerVars, uploadVars>>

\* router.js:30,50  `return await route.handler(event)`: the handler's
\* response is route()'s response.
settleReturn(resp) == Returned(resp)

HandlerReturns ==
    /\ pc = "awaiting"
    /\ \E resp \in HandlerResponses :
          /\ calls' = [calls EXCEPT ![Len(calls)].answer = Returned(resp)]
          /\ outcome' = settleReturn(resp)
    /\ pc' = "done"
    /\ UNCHANGED <<routes, event0, event>>
    /\ UNCHANGED <<recipeVars, read, dbVars, controllerVars, handlerVars, uploadVars>>

\* Fault variant of settleThrow: a failing handler is answered with the 404.
settleThrow_asNotFound(err) == Returned(NotFoundResponse)

\* router.js:30,50  no try/catch around the await: the handler's rejection
\* is route()'s rejection.
settleThrow(err) == Threw(err)

HandlerThrows ==
    /\ pc = "awaiting"
    /\ \E err \in HandlerErrors :
          /\ calls' = [calls EXCEPT ![Len(calls)].answer = Threw(err)]
          /\ outcome' = settleThrow(err)
    /\ pc' = "done"
    /\ UNCHANGED <<routes, event0, event>>
    /\ UNCHANGED <<recipeVars, read, dbVars, controllerVars, handlerVars, uploadVars>>

\* The caller of route() (handler.js:25) has the settled result; the router
\* keeps nothing of the request.
routeDone ==
    /\ pc = "done"
    /\ pc' = "idle"
    /\ event0' = NoEvent
    /\ event' = NoEvent
    /\ calls' = << >>
    /\ outcome' = Pending
    /\ UNCHANGED routes

RouteDone ==
    /\ routeDone
    /\ UNCHANGED <<recipeVars, read, dbVars, controllerVars, handlerVars, uploadVars>>

(***************************************************************************)
(* The recipe service (services/recipeService.js) over the Recipe model    *)
(* (models/Recipe.js).                                                     *)
(*                                                                         *)
(* A field of the input object that may be missing is [has, val]; a tag is *)
(* a sequence of characters; an error message is the sequence of the       *)
(* fragments it is concatenated from.                                      *)
(***************************************************************************)
\* steps of an input, and the range 1..MaxSteps of their order values
MaxSteps == 3

\* tags of an input
MaxTags == 2

\* documents in the collection before AddRecipe stops
MaxStore == 1

\* models/Recipe.js:47  maxlength of title
TitleMaxLength == 200

Some(v) == [has |-> TRUE, val |-> v]

Absent(d) == [has |-> FALSE, val |-> d]

\* A JavaScript number that is whole, or a whole number and a half: the
\* schema type Number takes both (models/Recipe.js:50).  Servings are such
\* numbers; the step orders of the inputs are whole and written as integers,
\* with a flag (quoted) on an order the input gives as the text of the
\* number ("1" for 1), which the schema's Number cast turns into the number.
Whole(n) == [int |-> n, half |-> FALSE]

AndAHalf(n) == [int |-> n, half |-> TRUE]

\* a < n for a whole n
below(a, n) == a.int < n

isInteger(a) == ~a.half

\* Inputs of addRecipe.  A step's text names its position in the input, so
\* that the steps of one input are told apart after the sort.
StepTexts == <<"Éplucher", "Couper", "Disposer", "Cuire", "Servir">>

mkSteps(orders) ==
    [k \in 1..Len(orders) |->
        [order |-> orders[k], text |-> StepTexts[k], quoted |-> FALSE]]

StepInputs ==
    {Absent(<< >>), Some(<< >>)}
    \cup {Some(mkSteps(os)) : os \in UNION {[1..n -> 1..MaxSteps] : n \in 1..MaxSteps}}

TagValues == { <<"a">>, <<"A">>, <<" ", "a">>, <<"B", " ">>, <<" ">> }

\* ['Tag1', 'TAG2', 'tag1', ' Tag3 '] with the tag names shortened
TagExample == << <<"T", "a">>, <<"T", "B">>, <<"t", "a">>, <<" ", "T", "c", " ">> >>

TagInputs ==
    {Absent(<< >>), Some(<< >>), Some(TagExample)}
    \cup {Some(ts) : ts \in UNION {[1..n -> TagValues] : n \in 1..MaxTags}}

TitleInputs == {Absent(""), Some(""), Some("Tarte aux Pommes")}

ServingsInputs == {Absent(Whole(0)), Some(Whole(0)), Some(Whole(6)), Some(AndAHalf(1))}

IngredientInputs ==
    {Absent(<< >>), Some(<< >>), Some(<<[name |-> ""]>>), Some(<<[name |-> "Pommes"]>>)}

RecipeInputs ==
    { [title |-> t, servings |-> Some(Whole(6)), ingredients |-> Some(<<[name |-> "Pommes"]>>),
       steps |-> st, tags |-> Some(<< <<"B", " ">> >>)] :
         t \in {Absent(""), Some("Tarte aux Pommes")}, st \in StepInputs }
    \cup
    { [title |-> t, servings |-> Some(Whole(6)), ingredients |-> Some(<<[name |-> "Pommes"]>>),
       steps |-> Some(mkSteps(<<2, 1>>)), tags |-> tg] :
         t \in {Absent(""), Some("Tarte aux Pommes")}, tg \in TagInputs }
    \cup
    { [title |-> t, servings |-> sv, ingredients |-> ing, steps |-> st,
       tags |-> Absent(<< >>)] :
         t \in TitleInputs, sv \in ServingsInputs, ing \in IngredientInputs,
         st \in {Some(mkSteps(<<1>>)), Some(<<[order |-> 0, text |-> "", quoted |-> FALSE]>>),
                 Some(mkSteps(<<1, 1>>))} }

\* Errors: [name, message, errors]; errors is the per-field list of a
\* Mongoose ValidationError.
NoError == [name |-> "", message |-> << >>, errors |-> << >>]

PlainError(fragments) == [name |-> "Error", message |-> fragments, errors |-> << >>]

ValidationError(errs) ==
    [name |-> "ValidationError", message |-> <<"Recipe validation failed">>, errors |-> errs]

\* Failures of save() other than validation (connectivity).
SaveFaults ==
    { [name |-> "MongoNetworkError", message |-> <<"connection timed out">>, errors |-> << >>] }

(***************************************************************************)
(* recipeService.js:102-112  _validateRecipeData                           *)
(***************************************************************************)
DuplicateOrderMessage == <<"Les numéros d'ordre des étapes doivent être uniques">>

\* Fault variant of validateRecipeData: only neighbouring steps are compared.
validateRecipeData_neighbours(data) ==
    IF /\ data.steps.has
       /\ \E k \in 1..(Len(data.steps.val) - 1) :
             /\ data.steps.val[k].order = data.steps.val[k + 1].order
             /\ data.steps.val[k].quoted = data.steps.val[k + 1].quoted
    THEN PlainError(DuplicateOrderMessage)
    ELSE NoError

\* The error thrown, NoError when the check passes.  new Set(orders) keeps
\* a number and the text of that number as two values.
validateRecipeData(data) ==
    IF data.steps.has /\ Len(data.steps.val) > 0
    THEN LET orders == [k \in 1..Len(data.steps.val) |->
                           <<data.steps.val[k].order, data.steps.val[k].quoted>>]
             uniqueOrders == {orders[k] : k \in 1..Len(orders)}
         IN  IF Cardinality(uniqueOrders) # Len(orders)
             THEN PlainError(DuplicateOrderMessage)
             ELSE NoError
    ELSE NoError

(***************************************************************************)
(* recipeService.js:21  steps.sort((a, b) => a.order - b.order): the       *)
(* stable sort of Array.prototype.sort under that comparator.              *)
(***************************************************************************)
compareSteps(a, b) == a.order - b.order

RECURSIVE insertStep(_, _)
insertStep(sorted, st) ==
    IF sorted = << >> THEN <<st>>
    ELSE IF compareSteps(Head(sorted), st) <= 0
         THEN <<Head(sorted)>> \o insertStep(Tail(sorted), st)
         ELSE <<st>> \o sorted

\* Fault variant of sortSteps: the comparator is reversed (b.order - a.order).
RECURSIVE sortSteps_descending(_)
sortSteps_descending(steps) ==
    IF steps = << >> THEN << >>
    ELSE LET rest == sortSteps_descending(SubSeq(steps, 1, Len(steps) - 1))
             st   == steps[Len(steps)]
             before == SelectSeq(rest, LAMBDA x : x.order >= st.order)
             after  == SelectSeq(rest, LAMBDA x : x.order < st.order)
         IN  before \o <<st>> \o after

RECURSIVE sortSteps(_)
sortSteps(steps) ==
    IF steps = << >> THEN << >>
    ELSE insertStep(sortSteps(SubSeq(steps, 1, Len(steps) - 1)), steps[Len(steps)])

(***************************************************************************)
(* recipeService.js:26  [...new Set(tags.map(tag =>                        *)
(*                           tag.toLowerCase().trim()))]                   *)
(***************************************************************************)
toLowerCaseChar(c) ==
    CASE c = "A" -> "a"
      [] c = "B" -> "b"
      [] c = "T" -> "t"
      [] OTHER -> c

toLowerCase(tag) == [k \in 1..Len(tag) |-> toLowerCaseChar(tag[k])]

trim(tag) ==
    LET inked == {k \in 1..Len(tag) : tag[k] # " "}
    IN  IF inked = {} THEN << >> ELSE SubSeq(tag, SetMin(inked), SetMax(inked))

\* new Set(iterable) spread back into an array: insertion order, an element
\* already present is not added again.
RECURSIVE setOf(_, _)
setOf(items, acc) ==
    IF items = << >> THEN acc
    ELSE setOf(Tail(items),
               IF \E k \in 1..Len(acc) : acc[k] = Head(items)
               THEN acc ELSE Append(acc, Head(items)))

\* Fault variant of normalizeTags: duplicates are removed before the tags
\* are lowercased and trimmed.
normalizeTags_dedupeFirst(tags) ==
    LET unique == setOf(tags, << >>)
    IN  [k \in 1..Len(unique) |-> trim(toLowerCase(unique[k]))]

normalizeTags(tags) ==
    setOf([k \in 1..Len(tags) |-> trim(toLowerCase(tags[k]))], << >>)

(***************************************************************************)
(* models/Recipe.js  the schema: new Recipe(data) fills the defaults       *)
(* (arrays default to []), save() validates the document, field by field   *)
(* in the order of the schema, and then writes it.                         *)
(***************************************************************************)
\* models/Recipe.js:27-31  order is of type Number: the text of a number is
\* cast to the number
castSteps(steps) == [k \in 1..Len(steps) |-> [steps[k] EXCEPT !.quoted = FALSE]]

castDocument(data) ==
    [title |-> data.title,
     servings |-> data.servings,
     ingredients |-> IF data.ingredients.has THEN data.ingredients.val ELSE << >>,
     steps |-> IF data.steps.has THEN castSteps(data.steps.val) ELSE << >>,
     tags |-> IF data.tags.has THEN data.tags.val ELSE << >>]

FieldError(field, index, sub, message) ==
    [field |-> field, index |-> index, sub |-> sub, message |-> message]

RECURSIVE ingredientErrors(_, _)
ingredientErrors(ingredients, k) ==
    IF k > Len(ingredients) THEN << >>
    ELSE (IF ingredients[k].name = ""
          THEN <<FieldError("ingredients", k - 1, "name", "Le nom de l'ingrédient est requis")>>
          ELSE << >>)
         \o ingredientErrors(ingredients, k + 1)

RECURSIVE stepErrors(_, _)
stepErrors(steps, k) ==
    IF k > Len(steps) THEN << >>
    ELSE (IF steps[k].order < 1
          THEN <<FieldError("steps", k - 1, "order", "L'ordre doit être supérieur à 0")>>
          ELSE << >>)
         \o (IF steps[k].text = ""
             THEN <<FieldError("steps", k - 1, "text", "Le texte de l'étape est requis")>>
             ELSE << >>)
         \o stepErrors(steps, k + 1)

validate(doc) ==
    (IF ~doc.title.has \/ doc.title.val = ""
     THEN <<FieldError("title", -1, "", "Le titre de la recette est requis")>>
     ELSE IF Len(doc.title.val) > TitleMaxLength
     THEN <<FieldError("title", -1, "", "Le titre ne peut pas dépasser 200 caractères")>>
     ELSE << >>)
    \o (IF ~doc.servings.has
        THEN <<FieldError("servings", -1, "", "Le nombre de portions est requis")>>
        ELSE IF below(doc.servings.val, 1)
        THEN <<FieldError("servings", -1, "", "Le nombre de portions doit être au moins 1")>>
        ELSE << >>)
    \o (IF Len(doc.ingredients) = 0
        THEN <<FieldError("ingredients", -1, "", "Au moins un ingrédient est requis")>>
        ELSE ingredientErrors(doc.ingredients, 1))
    \o (IF Len(doc.steps) = 0
        THEN <<FieldError("steps", -1, "", "Au moins une étape est requise")>>
        ELSE stepErrors(doc.steps, 1))

\* Fault variant of persisted: every document is written under the same
\* identifier.
persisted_sameId(doc, st) ==
    [id |-> 1,
     title |-> doc.title.val,
     servings |-> doc.servings.val,
     ingredients |-> doc.ingredients,
     steps |-> doc.steps,
     tags |-> doc.tags,
     createdAt |-> Len(st) + 1,
     updatedAt |-> Len(st) + 1]

\* The document as written: identifier and timestamps assigned on write.
persisted(doc, st) ==
    [id |-> Len(st) + 1,
     title |-> doc.title.val,
     servings |-> doc.servings.val,
     ingredients |-> doc.ingredients,
     steps |-> doc.steps,
     tags |-> doc.tags,
     createdAt |-> Len(st) + 1,
     updatedAt |-> Len(st) + 1]

NoDocument ==
    [id |-> 0, title |-> "", servings |-> Whole(0), ingredients |-> << >>, steps |-> << >>,
     tags |-> << >>, createdAt |-> 0, updatedAt |-> 0]

\* recipeService.js:29-30  new Recipe(recipeData); await recipe.save():
\* the rejection (NoError when the write succeeds).  fault is what the
\* connection does to this write.
saveRejection(data, fault) ==
    IF validate(castDocument(data)) # << >>
    THEN ValidationError(validate(castDocument(data)))
    ELSE fault

(***************************************************************************)
(* recipeService.js:118-121  _formatValidationErrors                       *)
(***************************************************************************)
RECURSIVE join(_, _)
join(items, separator) ==
    IF items = << >> THEN << >>
    ELSE IF Len(items) = 1 THEN <<items[1]>>
    ELSE <<items[1], separator>> \o join(Tail(items), separator)

\* Fault variant of formatValidationErrors: only the first field is reported.
formatValidationErrors_first(error) ==
    IF error.errors = << >> THEN << >> ELSE <<error.errors[1].message>>

formatValidationErrors(error) ==
    join([k \in 1..Len(error.errors) |-> error.errors[k].message], ", ")

\* recipeService.js:33-38  the catch block of addRecipe
translate(error) ==
    IF error.name = "ValidationError"
    THEN PlainError(<<"Validation échouée: ">> \o formatValidationErrors(error))
    ELSE error

(***************************************************************************)
(* recipeService.js:14-39  addRecipe                                       *)
(***************************************************************************)
NoResult == [kind |-> "none", value |-> NoDocument, error |-> NoError]

Resolved(doc) == [kind |-> "returned", value |-> doc, error |-> NoError]

Rejected(error) == [kind |-> "threw", value |-> NoDocument, error |-> error]

\* Fault variant of normalized: the sort and the tag replacement run
\* without their guards, on [] for a field the input lacks.
normalized_unguarded(data) ==
    [data EXCEPT
        !.steps = Some(IF data.steps.has THEN sortSteps(data.steps.val) ELSE << >>),
        !.tags  = Some(IF data.tags.has THEN normalizeTags(data.tags.val) ELSE << >>)]

\* lines 20-27: the input object after the in-place sort and the tag
\* replacement
normalized(data) ==
    [data EXCEPT
        !.steps = IF data.steps.has /\ Len(data.steps.val) > 0
                  THEN Some(sortSteps(data.steps.val)) ELSE data.steps,
        !.tags  = IF data.tags.has /\ Len(data.tags.val) > 0
                  THEN Some(normalizeTags(data.tags.val)) ELSE data.tags]

NoInput ==
    [title |-> Absent(""), servings |-> Absent(Whole(0)), ingredients |-> Absent(<< >>),
     steps |-> Absent(<< >>), tags |-> Absent(<< >>)]

addRecipe(input, fault) ==
    /\ input0' = input
    /\ IF validateRecipeData(input) # NoError
       THEN /\ recipeData' = input
            /\ saves' = << >>
            /\ store' = store
            /\ result' = Rejected(translate(validateRecipeData(input)))
       ELSE LET data == normalized(input)
                rejection == saveRejection(data, fault)
            IN  /\ recipeData' = data
                /\ saves' = <<[data |-> data, rejection |-> rejection]>>
                /\ IF rejection = NoError
                   THEN /\ store' = Append(store, persisted(castDocument(data), store))
                        /\ result' = Resolved(persisted(castDocument(data), store))
                   ELSE /\ store' = store
                        /\ result' = Rejected(translate(rejection))

AddRecipe ==
    /\ result.kind = "none"
    /\ read.op = "none"
    /\ Len(store) < MaxStore
    /\ \E input \in RecipeInputs, fault \in SaveFaults \cup {NoError} :
          addRecipe(input, fault)
    /\ UNCHANGED <<routerVars, read, dbVars, controllerVars, handlerVars, uploadVars>>

\* Inputs as JSON.parse hands them over (recipeController.js:72-80): a step's
\* order is a number or the text of a number.
withQuoted(steps, positions) ==
    [k \in 1..Len(steps) |-> [steps[k] EXCEPT !.quoted = (k \in positions)]]

JsonInputs ==
    RecipeInputs
    \cup { [title |-> Some("Tarte aux Pommes"), servings |-> Some(Whole(6)),
            ingredients |-> Some(<<[name |-> "Pommes"]>>),
            steps |-> Some(withQuoted(mkSteps(os), positions)),
            tags |-> Some(<< <<"B", " ">> >>)] :
              os \in UNION {[1..n -> 1..2] : n \in 1..MaxSteps},
              positions \in SUBSET (1..MaxSteps) }
    \cup { [title |-> Some("Tarte aux Pommes"), servings |-> Some(Whole(6)),
            ingredients |-> Some(<<[name |-> "Pommes"]>>), steps |-> st, tags |-> tg] :
              st \in {Absent(<< >>), Some(<< >>), Some(mkSteps(<<1>>))},
              tg \in TagInputs }

AddJsonRecipe ==
    /\ result.kind = "none"
    /\ read.op = "none"
    /\ Len(store) < MaxStore
    /\ \E input \in JsonInputs, fault \in SaveFaults \cup {NoError} :
          addRecipe(input, fault)
    /\ UNCHANGED <<routerVars, read, dbVars, controllerVars, handlerVars, uploadVars>>

(***************************************************************************)
(* recipeService.js:46-62  getRecipeById                                   *)
(*                                                                         *)
(* An identifier is well formed (an ObjectId) or not; key tells the well   *)
(* formed ones apart and is the id persisted() assigns.                    *)
(***************************************************************************)
\* documents in the collection before AddCatalogRecipe stops
MaxCatalog == 3

ObjectId(k) == [wellFormed |-> TRUE, key |-> k]

MalformedId == [wellFormed |-> FALSE, key |-> 0]

IdInputs == {ObjectId(k) : k \in 1..(MaxCatalog + 1)} \cup {MalformedId}

CastError ==
    [name |-> "CastError", message |-> <<"Cast to ObjectId failed">>, errors |-> << >>]

\* Failures of a query other than the cast of the identifier.
FindFaults ==
    { [name |-> "MongoNetworkError", message |-> <<"connection timed out">>, errors |-> << >>] }

\* Recipe.findById(recipeId): the rejection (NoError when the query
\* answers).  The identifier is cast before the query is sent.
findByIdRejection(recipeId, fault) ==
    IF ~recipeId.wellFormed THEN CastError ELSE fault

\* Recipe.findById(recipeId): the document, or null
findById(recipeId, st) ==
    IF \E k \in 1..Len(st) : st[k].id = recipeId.key
    THEN Some(st[CHOOSE k \in 1..Len(st) : st[k].id = recipeId.key])
    ELSE Absent(NoDocument)

NoOptions ==
    [limit |-> Absent(0), skip |-> Absent(0), sortBy |-> Absent(""),
     sortOrder |-> Absent(""), tags |-> [kind |-> "undefined", val |-> << >>]]

NoQuery ==
    [filter |-> [tags |-> Absent(<< >>)], sort |-> [field |-> "", direction |-> 0],
     limit |-> 0, skip |-> 0]

NoRead ==
    [op |-> "none", id |-> MalformedId, options |-> Absent(NoOptions), query |-> NoQuery,
     fault |-> NoError, kind |-> "none", found |-> Absent(NoDocument), list |-> << >>, error |-> NoError]

\* Fault variant of getRecipeByIdOutcome: the CastError is rethrown like
\* any other failure.
getRecipeByIdOutcome_castThrows(recipeId, fault, st) ==
    IF findByIdRejection(recipeId, fault) # NoError
    THEN [kind |-> "threw", found |-> Absent(NoDocument),
          error |-> findByIdRejection(recipeId, fault)]
    ELSE [kind |-> "returned", found |-> findById(recipeId, st), error |-> NoError]

\* How the call settles: [kind, found, error]
getRecipeByIdOutcome(recipeId, fault, st) ==
    IF findByIdRejection(recipeId, fault) = NoError
    THEN [kind |-> "returned", found |-> findById(recipeId, st), error |-> NoError]
    ELSE IF findByIdRejection(recipeId, fault).name = "CastError"
    THEN [kind |-> "returned", found |-> Absent(NoDocument), error |-> NoError]
    ELSE [kind |-> "threw", found |-> Absent(NoDocument),
          error |-> findByIdRejection(recipeId, fault)]

getRecipeById(recipeId, fault) ==
    LET settled == getRecipeByIdOutcome(recipeId, fault, store)
    IN  read' = [NoRead EXCEPT !.op = "getRecipeById", !.id = recipeId, !.fault = fault,
                               !.kind = settled.kind, !.found = settled.found,
                               !.error = settled.error]

GetRecipeById ==
    /\ result.kind = "none"
    /\ read.op = "none"
    /\ \E recipeId \in IdInputs, fault \in FindFaults \cup {NoError} :
          getRecipeById(recipeId, fault)
    /\ UNCHANGED <<recipeVars, routerVars, dbVars, controllerVars, handlerVars, uploadVars>>

(***************************************************************************)
(* recipeService.js:69-96  getAllRecipes                                   *)
(*                                                                         *)
(* An option is absent (undefined) or present; tags is undefined, null or  *)
(* an array.  The argument itself may be left out (options = {}).          *)
(***************************************************************************)
italien == <<"i">>

rapide == <<"r">>

vegetarien == <<"v">>

TagsOption(kind, val) == [kind |-> kind, val |-> val]

OptionInputs ==
    {Absent(NoOptions)}
    \cup { Some([NoOptions EXCEPT !.limit = l, !.skip = s,
                                  !.sortBy = Some("title"), !.sortOrder = Some("asc")]) :
             l \in {Absent(0)} \cup {Some(n) : n \in 0..2},
             s \in {Absent(0)} \cup {Some(n) : n \in 0..2} }
    \cup { Some([NoOptions EXCEPT !.sortBy = f, !.sortOrder = o]) :
             f \in {Absent(""), Some("title"), Some("createdAt"), Some("rating")},
             o \in {Absent(""), Some("asc"), Some("desc"), Some("ASC")} }
    \cup { Some([NoOptions EXCEPT !.tags = t]) :
             t \in {TagsOption("undefined", << >>), TagsOption("null", << >>),
                    TagsOption("array", << >>), TagsOption("array", <<italien>>),
                    TagsOption("array", <<italien, rapide>>),
                    TagsOption("array", <<rapide, italien>>),
                    TagsOption("array", <<italien, vegetarien>>)} }

\* Fault variant of buildQuery: an absent limit or skip falls back to the
\* default only when sortBy is absent too.
buildQuery_defaultsTogether(options) ==
    LET o == IF options.has THEN options.val ELSE NoOptions
        sortBy == IF o.sortBy.has THEN o.sortBy.val ELSE "createdAt"
        sortOrder == IF o.sortOrder.has THEN o.sortOrder.val ELSE "desc"
    IN  [filter |-> [tags |-> IF o.tags.kind = "array" /\ Len(o.tags.val) > 0
                              THEN Some(o.tags.val) ELSE Absent(<< >>)],
         sort |-> [field |-> sortBy, direction |-> IF sortOrder = "desc" THEN -1 ELSE 1],
         limit |-> IF o.limit.has THEN o.limit.val ELSE IF o.sortBy.has THEN 0 ELSE 50,
         skip |-> IF o.skip.has THEN o.skip.val ELSE 0]

\* lines 69-84, 89: the filter, sort, limit and skip handed to the query
buildQuery(options) ==
    LET o == IF options.has THEN options.val ELSE NoOptions
        limit == IF o.limit.has THEN o.limit.val ELSE 50
        skip == IF o.skip.has THEN o.skip.val ELSE 0
        sortBy == IF o.sortBy.has THEN o.sortBy.val ELSE "createdAt"
        sortOrder == IF o.sortOrder.has THEN o.sortOrder.val ELSE "desc"
        tags == IF o.tags.kind = "undefined" THEN TagsOption("null", << >>) ELSE o.tags
    IN  [filter |-> [tags |-> IF tags.kind = "array" /\ Len(tags.val) > 0
                              THEN Some(tags.val) ELSE Absent(<< >>)],
         sort |-> [field |-> sortBy, direction |-> IF sortOrder = "desc" THEN -1 ELSE 1],
         limit |-> limit,
         skip |-> skip]

(***************************************************************************)
(* recipeService.js:88-92  Recipe.find(filter).sort(..).limit(..)          *)
(*                               .skip(..).lean()                          *)
(*                                                                         *)
(* The query as MongoDB runs it: filter, then sort, then skip, then limit, *)
(* whatever the order of the chained calls; a limit of 0 sets no limit;    *)
(* documents that compare equal on the sort field come in any order.       *)
(***************************************************************************)
\* Fault variant of eligible: one requested tag is enough ($in for $all).
eligible_anyTag(doc, filter) ==
    filter.tags.has =>
        \E k \in 1..Len(filter.tags.val) :
            \E j \in 1..Len(doc.tags) : doc.tags[j] = filter.tags.val[k]

\* Fault variant of eligible: the requested tags are compared lowercased and
\* trimmed.
eligible_normalized(doc, filter) ==
    filter.tags.has =>
        \A k \in 1..Len(filter.tags.val) :
            \E j \in 1..Len(doc.tags) : doc.tags[j] = trim(toLowerCase(filter.tags.val[k]))

\* lines 80-84: {} matches every document, {tags: {$all: tags}} those
\* whose tags hold every requested tag
eligible(doc, filter) ==
    filter.tags.has =>
        \A k \in 1..Len(filter.tags.val) :
            \E j \in 1..Len(doc.tags) : doc.tags[j] = filter.tags.val[k]

\* Binary string comparison, as a rank, for the titles of the model.
collate(title) ==
    CASE title = "Pizza Margherita" -> 1
      [] title = "Risotto aux champignons" -> 2
      [] title = "Salade César" -> 3
      [] title = "Tarte aux Pommes" -> 4
      [] OTHER -> 0

\* The value a document is sorted on; a field the document does not have
\* sorts as null, the same for every document.
sortKey(doc, field) ==
    CASE field = "createdAt" -> doc.createdAt
      [] field = "updatedAt" -> doc.updatedAt
      [] field = "title" -> collate(doc.title)
      [] OTHER -> 0

\* the sequences that hold each document of S once, in the order of sort
sorted(S, sort) ==
    { seq \in [1..Cardinality(S) -> S] :
        /\ \A a, b \in 1..Cardinality(S) : a # b => seq[a] # seq[b]
        /\ \A a, b \in 1..Cardinality(S) :
              a < b => sort.direction * (sortKey(seq[a], sort.field)
                                           - sortKey(seq[b], sort.field)) <= 0 }

skipped(seq, skip) == SubSeq(seq, skip + 1, Len(seq))

limited(seq, limit) ==
    IF limit = 0 \/ limit >= Len(seq) THEN seq ELSE SubSeq(seq, 1, limit)

\* the results the query may answer with
find(query, st) ==
    LET S == {st[k] : k \in {j \in 1..Len(st) : eligible(st[j], query.filter)}}
    IN  {limited(skipped(seq, query.skip), query.limit) : seq \in sorted(S, query.sort)}

getAllRecipes(options, fault) ==
    IF fault # NoError
    THEN read' = [NoRead EXCEPT !.op = "getAllRecipes", !.options = options,
                                !.query = buildQuery(options), !.fault = fault,
                                !.kind = "threw", !.error = fault]
    ELSE \E list \in find(buildQuery(options), store) :
            read' = [NoRead EXCEPT !.op = "getAllRecipes", !.options = options,
                                   !.query = buildQuery(options),
                                   !.kind = "returned", !.list = list]

GetAllRecipes ==
    /\ result.kind = "none"
    /\ read.op = "none"
    /\ \E options \in OptionInputs, fault \in FindFaults \cup {NoError} :
          getAllRecipes(options, fault)
    /\ UNCHANGED <<recipeVars, routerVars, dbVars, controllerVars, handlerVars, uploadVars>>

(***************************************************************************)
(* The recipes of the catalog the read operations are exercised on.        *)
(***************************************************************************)
CatalogRecipe(title, tags) ==
    [title |-> title, servings |-> Some(Whole(4)),
     ingredients |-> Some(<<[name |-> "Tomates"]>>),
     steps |-> Some(mkSteps(<<1>>)), tags |-> tags]

CatalogInputs ==
    { CatalogRecipe(Some(t), Some(<<italien, rapide>>)) :
        t \in {"Pizza Margherita", "Risotto aux champignons", "Salade César"} }
    \cup { CatalogRecipe(Some("Pizza Margherita"), tg) :
             tg \in {Some(<<italien>>), Some(<<vegetarien>>), Absent(<< >>)} }
    \cup { CatalogRecipe(Absent(""), Some(<<italien>>)),
           [CatalogRecipe(Some("Salade César"), Some(<<italien>>))
               EXCEPT !.steps = Some(mkSteps(<<1, 1>>))] }

AddCatalogRecipe ==
    /\ result.kind = "none"
    /\ read.op = "none"
    /\ Len(store) < MaxCatalog
    /\ \E input \in CatalogInputs, fault \in SaveFaults \cup {NoError} :
          addRecipe(input, fault)
    /\ UNCHANGED <<routerVars, read, dbVars, controllerVars, handlerVars, uploadVars>>

\* The caller has the settled result of the service call.
ServiceDone ==
    /\ result.kind # "none" \/ read.op # "none"
    /\ result' = NoResult
    /\ recipeData' = NoInput
    /\ input0' = NoInput
    /\ saves' = << >>
    /\ read' = NoRead
    /\ UNCHANGED store
    /\ UNCHANGED <<routerVars, dbVars, controllerVars, handlerVars, uploadVars>>

(***************************************************************************)
(* utils/db.mjs  the cached connection.                                    *)
(*                                                                         *)
(* cache is the module's cache object; a promise is "none", "pending",     *)
(* "resolved" or "rejected".  mongoose is the state of the one Mongoose    *)
(* connection with counts of what happened to it; fetches counts the       *)
(* requests made to the remote configuration.  Every caller of getDb runs  *)
(* from one await to the next in one step.                                 *)
(***************************************************************************)
\* concurrent callers of getDb
MaxCallers == 2

\* calls of getDb by one caller
MaxAcquisitions == 2

\* times the connection is lost
MaxDrops == 1

\* calls of closeDb
MaxCloses == 1

Callers == 1..MaxCallers

NoCache ==
    [uri |-> FALSE, uriPromise |-> "none", dbName |-> FALSE, dbNamePromise |-> "none",
     isConnected |-> FALSE]

\* the connection: its readyState and what has happened to it (connect
\* calls, openings, failures to open, losses, closeDb calls, cache resets)
Disconnected ==
    [readyState |-> 0, connects |-> 0, opens |-> 0, failures |-> 0, drops |-> 0,
     closes |-> 0, resets |-> 0]

NoFetches == [uri |-> 0, dbName |-> 0]

\* a caller: where it is in getDb, the calls it has made, the state of its
\* own mongoose.connect promise, and what its last call returned
\* (afterFailure: its last closeDb found the URI request failed)
Outside ==
    [pc |-> "idle", calls |-> 0, connect |-> "none", value |-> 0, error |-> "",
     afterFailure |-> FALSE]

\* Fault variant of enterGetUri: a call that finds no URI cached asks the
\* remote configuration again unless a request is pending.
enterGetUri_retry(c) ==
    IF cache.uri
    THEN /\ acquirers' = [acquirers EXCEPT ![c].pc = "uriReady", ![c].calls = @ + 1]
         /\ UNCHANGED <<cache, fetches>>
    ELSE /\ acquirers' = [acquirers EXCEPT ![c].pc = "awaitUri", ![c].calls = @ + 1]
         /\ IF cache.uriPromise # "pending"
            THEN /\ cache' = [cache EXCEPT !.uriPromise = "pending"]
                 /\ fetches' = [fetches EXCEPT !.uri = @ + 1]
            ELSE UNCHANGED <<cache, fetches>>

\* db.mjs:16-26  getUri up to its await
enterGetUri(c) ==
    IF cache.uri
    THEN /\ acquirers' = [acquirers EXCEPT ![c].pc = "uriReady", ![c].calls = @ + 1]
         /\ UNCHANGED <<cache, fetches>>
    ELSE /\ acquirers' = [acquirers EXCEPT ![c].pc = "awaitUri", ![c].calls = @ + 1]
         /\ IF cache.uriPromise = "none"
            THEN /\ cache' = [cache EXCEPT !.uriPromise = "pending"]
                 /\ fetches' = [fetches EXCEPT !.uri = @ + 1]
            ELSE UNCHANGED <<cache, fetches>>

\* db.mjs:48-53  getDb up to its first await
getDb(c) ==
    /\ acquirers[c].pc = "idle"
    /\ acquirers[c].calls < MaxAcquisitions
    /\ IF cache.isConnected /\ mongoose.readyState = 1
       THEN /\ acquirers' = [acquirers EXCEPT ![c].pc = "returned", ![c].calls = @ + 1,
                                              ![c].value = mongoose.opens]
            /\ UNCHANGED <<cache, fetches>>
       ELSE enterGetUri(c)
    /\ UNCHANGED mongoose

GetDb(c) ==
    /\ getDb(c)
    /\ UNCHANGED <<routerVars, recipeVars, read, controllerVars, handlerVars, uploadVars>>

\* db.mjs:30-44  getDbName up to its await, with the cache as getUri left
\* it; the name comes from the environment variable or from the remote
\* configuration
enterGetDbName(c, cached) ==
    IF cached.dbName
    THEN /\ acquirers' = [acquirers EXCEPT ![c].pc = "dbNameReady"]
         /\ cache' = cached
         /\ UNCHANGED fetches
    ELSE /\ acquirers' = [acquirers EXCEPT ![c].pc = "awaitDbName"]
         /\ IF cached.dbNamePromise = "none"
            THEN \/ /\ cache' = [cached EXCEPT !.dbNamePromise = "resolved"]
                    /\ UNCHANGED fetches
                 \/ /\ cache' = [cached EXCEPT !.dbNamePromise = "pending"]
                    /\ fetches' = [fetches EXCEPT !.dbName = @ + 1]
            ELSE /\ cache' = cached
                 /\ UNCHANGED fetches

\* db.mjs:26-27, 53-54  getUri resumes and returns, getDb calls getDbName
UriSettled(c) ==
    /\ \/ /\ acquirers[c].pc = "uriReady"
          /\ enterGetDbName(c, cache)
       \/ /\ acquirers[c].pc = "awaitUri"
          /\ cache.uriPromise = "resolved"
          /\ enterGetDbName(c, [cache EXCEPT !.uri = TRUE])
       \/ /\ acquirers[c].pc = "awaitUri"
          /\ cache.uriPromise = "rejected"
          /\ acquirers' = [acquirers EXCEPT ![c].pc = "threw",
                                            ![c].error = "Missing MongoDB URI"]
          /\ UNCHANGED <<cache, fetches>>
    /\ UNCHANGED mongoose
    /\ UNCHANGED <<routerVars, recipeVars, read, controllerVars, handlerVars, uploadVars>>

\* db.mjs:59-64  mongoose.connect(uri, {...}) is called: one more connect,
\* answered at once when the connection is open
connectCalled(c) ==
    /\ acquirers' = [acquirers EXCEPT
                        ![c].pc = "awaitConnect",
                        ![c].connect = IF mongoose.readyState = 1 THEN "resolved"
                                       ELSE "pending"]
    /\ mongoose' = [mongoose EXCEPT
                        !.connects = @ + 1,
                        !.readyState = IF mongoose.readyState = 1 THEN 1 ELSE 2]

\* db.mjs:44-45, 54-59  getDbName resumes and returns, getDb calls
\* mongoose.connect
DbNameSettled(c) ==
    /\ \/ /\ \/ acquirers[c].pc = "dbNameReady"
             \/ acquirers[c].pc = "awaitDbName" /\ cache.dbNamePromise = "resolved"
          /\ cache' = [cache EXCEPT !.dbName = TRUE]
          /\ connectCalled(c)
       \/ /\ acquirers[c].pc = "awaitDbName"
          /\ cache.dbNamePromise = "rejected"
          /\ acquirers' = [acquirers EXCEPT ![c].pc = "threw", ![c].error = "Missing DB_NAME"]
          /\ UNCHANGED <<cache, mongoose>>
    /\ UNCHANGED fetches
    /\ UNCHANGED <<routerVars, recipeVars, read, controllerVars, handlerVars, uploadVars>>

\* db.mjs:66-68  the connect promise has settled: the flag is set and the
\* connection returned, or the failure thrown
ConnectSettled(c) ==
    /\ acquirers[c].pc = "awaitConnect"
    /\ \/ /\ acquirers[c].connect = "resolved"
          /\ cache' = [cache EXCEPT !.isConnected = TRUE]
          /\ acquirers' = [acquirers EXCEPT ![c].pc = "returned", ![c].connect = "none",
                                            ![c].value = mongoose.opens]
       \/ /\ acquirers[c].connect = "rejected"
          /\ cache' = cache
          /\ acquirers' = [acquirers EXCEPT ![c].pc = "threw", ![c].connect = "none",
                                            ![c].error = "MongooseServerSelectionError"]
    /\ UNCHANGED <<mongoose, fetches>>
    /\ UNCHANGED <<routerVars, recipeVars, read, controllerVars, handlerVars, uploadVars>>

\* the caller of getDb has its result
acquired(c) ==
    /\ acquirers[c].pc \in {"returned", "threw"}
    /\ acquirers' = [acquirers EXCEPT ![c].pc = "idle", ![c].value = 0, ![c].error = ""]
    /\ UNCHANGED <<cache, mongoose, fetches>>

Acquired(c) ==
    /\ acquired(c)
    /\ UNCHANGED <<routerVars, recipeVars, read, controllerVars, handlerVars, uploadVars>>

\* a caller whose next step waits for nothing: the promise it awaits has
\* settled
Runnable(c) ==
    \/ acquirers[c].pc \in {"uriReady", "dbNameReady"}
    \/ acquirers[c].pc = "awaitUri" /\ cache.uriPromise \in {"resolved", "rejected"}
    \/ acquirers[c].pc = "awaitDbName" /\ cache.dbNamePromise \in {"resolved", "rejected"}
    \/ acquirers[c].connect \in {"resolved", "rejected"}

\* db.mjs:79-81  closeDb up to its await: nothing to do when the flag is
\* not set.  Calls of closeDb do not overlap one another.
CloseDb(c) ==
    /\ acquirers[c].pc = "idle"
    /\ mongoose.closes < MaxCloses
    /\ \A d \in Callers : acquirers[d].pc # "awaitDisconnect"
    /\ acquirers' = [acquirers EXCEPT
                        ![c].pc = IF cache.isConnected THEN "awaitDisconnect" ELSE "closed",
                        ![c].afterFailure = (cache.uriPromise = "rejected")]
    /\ mongoose' = [mongoose EXCEPT !.closes = @ + 1]
    /\ UNCHANGED <<cache, fetches>>
    /\ UNCHANGED <<routerVars, recipeVars, read, controllerVars, handlerVars, uploadVars>>

\* db.mjs:81-86  mongoose.disconnect() has completed: the cache is reset.
\* disconnect waits for a connection that is being opened, and it takes a
\* round trip to the server: the callers of getDb that wait for nothing
\* have resumed before it completes.
CloseDbResumes(c) ==
    /\ acquirers[c].pc = "awaitDisconnect"
    /\ mongoose.readyState # 2
    /\ \A d \in Callers : ~Runnable(d)
    /\ mongoose' = [mongoose EXCEPT !.readyState = 0, !.resets = @ + 1]
    /\ cache' = [uri |-> FALSE, uriPromise |-> "none", dbName |-> FALSE,
                 dbNamePromise |-> "none", isConnected |-> FALSE]
    /\ acquirers' = [acquirers EXCEPT ![c].pc = "closed"]
    /\ UNCHANGED fetches
    /\ UNCHANGED <<routerVars, recipeVars, read, controllerVars, handlerVars, uploadVars>>

\* the caller of closeDb has its result
CloseDbDone(c) ==
    /\ acquirers[c].pc = "closed"
    /\ acquirers' = [acquirers EXCEPT ![c].pc = "idle"]
    /\ UNCHANGED <<cache, mongoose, fetches>>
    /\ UNCHANGED <<routerVars, recipeVars, read, controllerVars, handlerVars, uploadVars>>

\* The remote configuration answers a pending request, with the value or
\* without one.
ConfigAnswers ==
    /\ \/ /\ cache.uriPromise = "pending"
          /\ \E answer \in {"resolved", "rejected"} :
                cache' = [cache EXCEPT !.uriPromise = answer]
       \/ /\ cache.dbNamePromise = "pending"
          /\ \E answer \in {"resolved", "rejected"} :
                cache' = [cache EXCEPT !.dbNamePromise = answer]
    /\ UNCHANGED <<mongoose, fetches, acquirers>>
    /\ UNCHANGED <<routerVars, recipeVars, read, controllerVars, handlerVars, uploadVars>>

\* The connection being opened opens, or fails to; every connect promise
\* waiting for it settles with it.
ConnectionSettles ==
    /\ mongoose.readyState = 2
    /\ \E opened \in BOOLEAN :
          /\ mongoose' = IF opened
                         THEN [mongoose EXCEPT !.readyState = 1, !.opens = @ + 1]
                         ELSE [mongoose EXCEPT !.readyState = 0, !.failures = @ + 1]
          /\ acquirers' = [c \in Callers |->
                             IF acquirers[c].connect = "pending"
                             THEN [acquirers[c] EXCEPT
                                      !.connect = IF opened THEN "resolved" ELSE "rejected"]
                             ELSE acquirers[c]]
    /\ UNCHANGED <<cache, fetches>>
    /\ UNCHANGED <<routerVars, recipeVars, read, controllerVars, handlerVars, uploadVars>>

\* The open connection is lost.
ConnectionDrops ==
    /\ mongoose.readyState = 1
    /\ mongoose.drops < MaxDrops
    /\ mongoose' = [mongoose EXCEPT !.readyState = 0, !.drops = @ + 1]
    /\ UNCHANGED <<cache, fetches, acquirers>>
    /\ UNCHANGED <<routerVars, recipeVars, read, controllerVars, handlerVars, uploadVars>>

(***************************************************************************)
(* utils/http.mjs  the response helpers, as the controller tests observe   *)
(* them: the status code, the JSON content type, and the body as a record  *)
(* (error, data) in place of its JSON text.                                *)
(***************************************************************************)
NoBody ==
    [message |-> "", error |-> << >>, data |-> Absent(NoDocument),
     count |-> 0, recipes |-> << >>]

NoReply == [statusCode |-> 0, contentType |-> "", body |-> NoBody]

ok(body) == [statusCode |-> 200, contentType |-> "application/json", body |-> body]

badRequest(message) ==
    [statusCode |-> 400, contentType |-> "application/json",
     body |-> [NoBody EXCEPT !.error = message]]

serverError(message) ==
    [statusCode |-> 500, contentType |-> "application/json",
     body |-> [NoBody EXCEPT !.error = <<"Internal error">>]]

(***************************************************************************)
(* controllers/recipeController.js  createRecipe and getRecipe.            *)
(*                                                                         *)
(* event.body is text JSON.parse rejects, or the text of null, of a value  *)
(* that is not an object, or of an object; pathParameters is absent or a   *)
(* mapping whose id is absent, the empty string or an identifier.          *)
(***************************************************************************)
Body(kind, value) == [kind |-> kind, value |-> value]

BodyInputs ==
    {Body("unparsable", NoInput), Body("null", NoInput), Body("scalar", NoInput),
     Body("object", NoInput)}
    \cup {Body("object", input) : input \in CatalogInputs}

IdParam(kind, value) == [kind |-> kind, value |-> value]

PathParameterInputs ==
    {[present |-> FALSE, id |-> IdParam("absent", MalformedId)],
     [present |-> TRUE, id |-> IdParam("absent", MalformedId)],
     [present |-> TRUE, id |-> IdParam("empty", MalformedId)]}
    \cup {[present |-> TRUE, id |-> IdParam("given", recipeId)] : recipeId \in IdInputs}

\* event.queryStringParameters: absent (null), or a mapping whose limit,
\* skip and tags are absent or text (one character per element) and whose
\* sortBy and sortOrder are absent or a string
NoQueryParams ==
    [present |-> FALSE, limit |-> Absent(<< >>), skip |-> Absent(<< >>),
     sortBy |-> Absent(""), sortOrder |-> Absent(""), tags |-> Absent(<< >>)]

NoRequest ==
    [handler |-> "none", body |-> Body("null", NoInput),
     pathParameters |-> [present |-> FALSE, id |-> IdParam("absent", MalformedId)],
     queryStringParameters |-> NoQueryParams]

\* error.message.includes('Validation échouée'), over the fragments a
\* message is made of
includesMarker(message) ==
    \E k \in 1..Len(message) : message[k] = "Validation échouée: "

\* Fault variant of createRecipeReply: every failure is answered 400 with
\* its message.
createRecipeReply_allBadRequest(settled) ==
    IF settled.kind = "returned"
    THEN ok([NoBody EXCEPT !.message = "Recette créée avec succès",
                           !.data = Some(settled.value)])
    ELSE badRequest(settled.error.message)

\* recipeController.js:80-94  the response for a settled addRecipe
createRecipeReply(settled) ==
    IF settled.kind = "returned"
    THEN ok([NoBody EXCEPT !.message = "Recette créée avec succès",
                           !.data = Some(settled.value)])
    ELSE IF includesMarker(settled.error.message)
    THEN badRequest(settled.error.message)
    ELSE serverError(<<"Erreur interne du serveur">>)

\* recipeController.js:69-95
CreateRecipe ==
    /\ request.handler = "none"
    /\ result.kind = "none"
    /\ read.op = "none"
    /\ Len(store) < MaxCatalog
    /\ \E body \in BodyInputs, fault \in SaveFaults \cup {NoError} :
          /\ request' = [NoRequest EXCEPT !.handler = "createRecipe", !.body = body]
          /\ IF body.kind = "unparsable"
             THEN /\ response' = serverError(<<"Erreur interne du serveur">>)
                  /\ UNCHANGED recipeVars
             ELSE IF body.kind \in {"null", "scalar"}
             THEN /\ response' = badRequest(<<"Le corps de la requête est invalide">>)
                  /\ UNCHANGED recipeVars
             ELSE /\ addRecipe(body.value, fault)
                  /\ response' = createRecipeReply(result')
    /\ UNCHANGED <<routerVars, read, dbVars, handlerVars, uploadVars>>

\* Fault variant of getRecipeReply: the absent result is answered 404.
getRecipeReply_notFound(settled) ==
    IF settled.kind = "threw"
    THEN serverError(<<"Erreur interne du serveur">>)
    ELSE IF ~settled.found.has
    THEN [badRequest(<<"Recette non trouvée">>) EXCEPT !.statusCode = 404]
    ELSE ok([NoBody EXCEPT !.data = settled.found])

\* recipeController.js:109-122  the response for a settled getRecipeById
getRecipeReply(settled) ==
    IF settled.kind = "threw"
    THEN serverError(<<"Erreur interne du serveur">>)
    ELSE IF ~settled.found.has
    THEN badRequest(<<"Recette non trouvée">>)
    ELSE ok([NoBody EXCEPT !.data = settled.found])

\* recipeController.js:100-123
GetRecipe ==
    /\ request.handler = "none"
    /\ result.kind = "none"
    /\ read.op = "none"
    /\ \E params \in PathParameterInputs, fault \in FindFaults \cup {NoError} :
          /\ request' = [NoRequest EXCEPT !.handler = "getRecipe", !.pathParameters = params]
          /\ IF ~params.present \/ params.id.kind # "given"
             THEN /\ response' = badRequest(<<"ID de la recette manquant">>)
                  /\ UNCHANGED read
             ELSE /\ getRecipeById(params.id.value, fault)
                  /\ response' = getRecipeReply(read')
    /\ UNCHANGED <<routerVars, recipeVars, dbVars, handlerVars, uploadVars>>

(***************************************************************************)
(* controllers/recipeController.js  getAllRecipes.                         *)
(*                                                                         *)
(* parseInt reads a text as JavaScript does for the characters modelled    *)
(* here (digits, the minus sign, the blank, letters other than x): leading *)
(* blanks are skipped, a sign is read, then the longest run of digits; no  *)
(* digit gives NaN.  An absent text (undefined) gives NaN too.             *)
(***************************************************************************)
Digits == <<"0", "1", "2", "3", "4", "5", "6", "7", "8", "9">>

isDigit(ch) == \E d \in 1..Len(Digits) : Digits[d] = ch

digitValue(ch) == (CHOOSE d \in 1..Len(Digits) : Digits[d] = ch) - 1

NaN == [nan |-> TRUE, val |-> 0]

Number(n) == [nan |-> FALSE, val |-> n]

RECURSIVE trimStart(_)
trimStart(text) ==
    IF text # << >> /\ text[1] = " " THEN trimStart(Tail(text)) ELSE text

RECURSIVE digitRun(_)
digitRun(text) ==
    IF text # << >> /\ isDigit(text[1]) THEN <<text[1]>> \o digitRun(Tail(text)) ELSE << >>

RECURSIVE digitsValue(_)
digitsValue(run) ==
    IF run = << >> THEN 0
    ELSE 10 * digitsValue(SubSeq(run, 1, Len(run) - 1)) + digitValue(run[Len(run)])

parseInt(param) ==
    IF ~param.has THEN NaN
    ELSE LET text == trimStart(param.val)
             negative == text # << >> /\ text[1] = "-"
             run == digitRun(IF negative THEN Tail(text) ELSE text)
         IN  IF run = << >> THEN NaN
             ELSE Number(IF negative THEN 0 - digitsValue(run) ELSE digitsValue(run))

\* number || fallback: NaN and 0 are falsy
numberOr(number, fallback) ==
    IF number.nan \/ number.val = 0 THEN fallback ELSE number.val

\* string || fallback: undefined and '' are falsy
stringOr(param, fallback) ==
    IF ~param.has \/ param.val = "" THEN fallback ELSE param.val

\* String.prototype.split(','): the pieces between the commas, empty ones
\* included
RECURSIVE split(_)
split(text) ==
    IF \A k \in 1..Len(text) : text[k] # "," THEN <<text>>
    ELSE LET k == CHOOSE j \in 1..Len(text) :
                      text[j] = "," /\ \A h \in 1..(j - 1) : text[h] # ","
         IN  <<SubSeq(text, 1, k - 1)>> \o split(SubSeq(text, k + 1, Len(text)))

DefaultLimit == 50

\* recipeController.js:132-138  the options the service is called with
buildOptions(queryParams) ==
    Some([limit |-> Some(numberOr(parseInt(queryParams.limit), DefaultLimit)),
          skip |-> Some(numberOr(parseInt(queryParams.skip), 0)),
          sortBy |-> Some(stringOr(queryParams.sortBy, "createdAt")),
          sortOrder |-> Some(stringOr(queryParams.sortOrder, "desc")),
          tags |-> IF queryParams.tags.has /\ queryParams.tags.val # << >>
                   THEN TagsOption("array", split(queryParams.tags.val))
                   ELSE TagsOption("null", << >>)])

\* The query strings the listing is exercised on: no mapping, the empty
\* mapping, and mappings that set one group of parameters.
QueryParamInputs ==
    {NoQueryParams, [NoQueryParams EXCEPT !.present = TRUE]}
    \cup { [NoQueryParams EXCEPT !.present = TRUE, !.limit = l, !.skip = k] :
             l \in {Some(<< >>), Some(<<"0">>), Some(<<"2">>), Some(<<"1", "0">>),
                    Some(<<"a">>), Some(<<" ", "1">>), Some(<<"1", "a">>)},
             k \in {Absent(<< >>), Some(<<"0">>), Some(<<"1">>), Some(<<"a">>)} }
    \cup { [NoQueryParams EXCEPT !.present = TRUE, !.sortBy = f, !.sortOrder = o] :
             f \in {Some(""), Some("title"), Some("createdAt")},
             o \in {Some(""), Some("asc"), Some("desc")} }
    \cup { [NoQueryParams EXCEPT !.present = TRUE, !.tags = Some(t)] :
             t \in {<< >>, <<"i">>, <<"i", ",", "r">>, <<"i", ",">>, <<"I">>} }

\* recipeController.js:140-152  the response for a settled getAllRecipes
getAllRecipesReply(settled) ==
    IF settled.kind = "threw"
    THEN serverError(<<"Erreur interne du serveur">>)
    ELSE ok([NoBody EXCEPT !.count = Len(settled.list), !.recipes = settled.list])

\* recipeController.js:128-153
ListRecipes ==
    /\ request.handler = "none"
    /\ result.kind = "none"
    /\ read.op = "none"
    /\ \E params \in QueryParamInputs, fault \in FindFaults \cup {NoError} :
          /\ request' = [NoRequest EXCEPT !.handler = "getAllRecipes",
                                          !.queryStringParameters = params]
          /\ getAllRecipes(buildOptions(params), fault)
          /\ response' = getAllRecipesReply(read')
    /\ UNCHANGED <<routerVars, recipeVars, dbVars, handlerVars, uploadVars>>

\* A caller that creates a recipe and then lists the recipes bearing one of
\* the tags it wrote, through the service or through the controller's
\* options (recipeController.js:131-139).
TaggedInputs ==
    { CatalogRecipe(Some("Pizza Margherita"), Some(ts)) :
        ts \in UNION {[1..n -> TagValues] : n \in 1..MaxTags} }

AddTaggedRecipe ==
    /\ result.kind = "none"
    /\ read.op = "none"
    /\ Len(store) < MaxCatalog
    /\ \E input \in TaggedInputs : addRecipe(input, NoError)
    /\ UNCHANGED <<routerVars, read, dbVars, controllerVars, handlerVars, uploadVars>>

GetRecipesTagged ==
    /\ result.kind = "returned"
    /\ read.op = "none"
    /\ \E k \in 1..Len(input0.tags.val) :
          \/ getAllRecipes(Some([NoOptions EXCEPT
                                    !.tags = TagsOption("array", <<input0.tags.val[k]>>)]),
                           NoError)
          \/ getAllRecipes(buildOptions([NoQueryParams EXCEPT
                                            !.present = TRUE,
                                            !.tags = Some(input0.tags.val[k])]),
                           NoError)
    /\ UNCHANGED <<recipeVars, routerVars, dbVars, controllerVars, handlerVars, uploadVars>>

\* The caller has the response.
ControllerDone ==
    /\ request.handler # "none"
    /\ request' = NoRequest
    /\ response' = NoReply
    /\ result' = NoResult
    /\ recipeData' = NoInput
    /\ input0' = NoInput
    /\ saves' = << >>
    /\ read' = NoRead
    /\ UNCHANGED store
    /\ UNCHANGED <<routerVars, dbVars, handlerVars, uploadVars>>

(***************************************************************************)
(* handler.js  the Lambda entry point.                                     *)
(*                                                                         *)
(* The module registers its three routes when it is loaded; an invocation  *)
(* awaits getDb, then router.route(event), and turns a failure of either   *)
(* into the 500 response.  The execution context runs one invocation at a  *)
(* time; the handler is the first caller of getDb.  What the handler       *)
(* returns is [statusCode, headers, body]; body is the JSON text the       *)
(* router returned (json), or the object {error, message} of line 37-40.   *)
(***************************************************************************)
recipesPath == <<"/", "r", "e", "c", "i", "p", "e", "s">>

recipePath == recipesPath \o <<"/", "{", "i", "d", "}">>

Invoker == SetMin(Callers)

\* requests of the API gateway: the three routes, a method no route has,
\* paths no route has
HandlerEvents ==
    { StructuredEvent(m, p, [present |-> FALSE, map |-> NoParams]) :
        m \in Methods \cup {"DELETE"},
        p \in {recipesPath, recipesPath \o <<"/", "4", "2">>, <<"/">>,
               recipesPath \o <<"/", "4", "/", "2">>} }
    \cup { LegacyEvent("GET", recipesPath, [present |-> FALSE, map |-> NoParams]) }

NoInvocation ==
    [pc |-> "idle", event |-> NoEvent, db |-> "none", routed |-> Pending,
     invoked |-> 0, failure |-> "",
     reply |-> [statusCode |-> 0, headers |-> [contentType |-> "", allowOrigin |-> ""],
                body |-> [json |-> "", error |-> "", message |-> ""]]]

\* handler.js:25  `return await router.route(event)`: the router's response
\* as it is
passed(resp) ==
    [statusCode |-> resp.statusCode, headers |-> resp.headers,
     body |-> [json |-> resp.body, error |-> "", message |-> ""]]

\* Fault variant of caught: the 500 response without the failure's message.
caught_silent(message) ==
    [statusCode |-> 500,
     headers |-> [contentType |-> "application/json", allowOrigin |-> "*"],
     body |-> [json |-> "", error |-> "Erreur interne du serveur", message |-> ""]]

\* handler.js:27-42  the catch block
caught(message) ==
    [statusCode |-> 500,
     headers |-> [contentType |-> "application/json", allowOrigin |-> "*"],
     body |-> [json |-> "", error |-> "Erreur interne du serveur", message |-> message]]

\* handler.js:9-11  the routes of the module
LoadModule ==
    /\ routes = << >>
    /\ lambda.pc = "idle"
    /\ pc = "idle"
    /\ routes' = <<[method |-> "POST", path |-> recipesPath, handler |-> 1],
                   [method |-> "GET", path |-> recipePath, handler |-> 2],
                   [method |-> "GET", path |-> recipesPath, handler |-> 3]>>
    /\ UNCHANGED <<pc, event0, event, calls, outcome>>
    /\ UNCHANGED <<recipeVars, read, dbVars, controllerVars, handlerVars, uploadVars>>

\* handler.js:17-22  an invocation, up to the await of getDb
Handler ==
    /\ routes # << >>
    /\ lambda.pc = "idle"
    /\ pc = "idle"
    /\ \E e \in HandlerEvents :
          lambda' = [NoInvocation EXCEPT !.pc = "getDb", !.event = e]
    /\ getDb(Invoker)
    /\ UNCHANGED <<routerVars, recipeVars, read, controllerVars, uploadVars>>

\* handler.js:22-25  getDb returned the connection: router.route(event) is
\* called and awaited
HandlerRoutes ==
    /\ lambda.pc = "getDb"
    /\ acquirers[Invoker].pc = "returned"
    /\ acquired(Invoker)
    /\ route(lambda.event)
    /\ lambda' = [lambda EXCEPT !.pc = "route", !.db = "returned"]
    /\ UNCHANGED <<recipeVars, read, controllerVars, uploadVars>>

\* handler.js:22,27-42  getDb failed: the catch block answers
HandlerCatchesGetDb ==
    /\ lambda.pc = "getDb"
    /\ acquirers[Invoker].pc = "threw"
    /\ acquired(Invoker)
    /\ lambda' = [lambda EXCEPT !.pc = "done", !.db = "threw",
                                !.failure = acquirers[Invoker].error,
                                !.reply = caught(acquirers[Invoker].error)]
    /\ UNCHANGED <<routerVars, recipeVars, read, controllerVars, uploadVars>>

\* handler.js:25,27-42  route() settled: its response is returned, its
\* failure answered by the catch block
HandlerSettles ==
    /\ lambda.pc = "route"
    /\ routeDone
    /\ lambda' = [lambda EXCEPT
                     !.pc = "done",
                     !.routed = outcome,
                     !.invoked = Len(calls),
                     !.failure = outcome.error,
                     !.reply = IF outcome.kind = "returned"
                               THEN passed(outcome.response)
                               ELSE caught(outcome.error)]
    /\ UNCHANGED <<recipeVars, read, dbVars, controllerVars, uploadVars>>

\* The runtime has the response of the invocation.
HandlerDone ==
    /\ lambda.pc = "done"
    /\ lambda' = NoInvocation
    /\ UNCHANGED <<routerVars, recipeVars, read, dbVars, controllerVars, uploadVars>>

HandlerIdle == lambda = NoInvocation

(***************************************************************************)
(* The upload service (services/uploadService.js).  Content types, file    *)
(* names, clock readings and random strings are only compared or           *)
(* concatenated: they are TLA+ strings, and an object key is the sequence  *)
(* of the fragments its template literal concatenates.                     *)
(***************************************************************************)
BUCKET_NAME == "cmarchive-recipekeeper-pdf-recipies"

ALLOWED_TYPES == <<"image/jpeg", "image/png", "image/jpg", "application/pdf">>

MAX_FILE_SIZE == 10 * 1024 * 1024

SignedUrlExpiresIn == 300

ResultExpiresIn == 300

\* Array.prototype.includes
includes(array, x) == \E k \in 1..Len(array) : array[k] = x

\* validateFileType: the error it throws, NoError when it returns
validateFileType(contentType) ==
    IF ~includes(ALLOWED_TYPES, contentType)
    THEN PlainError(<<"Type de fichier non autorisé. Types acceptés: ">>
                        \o join(ALLOWED_TYPES, ", "))
    ELSE NoError

\* the mutant of validateFileSize: the limit itself is refused
validateFileSize_exclusive(size) ==
    IF size >= MAX_FILE_SIZE
    THEN PlainError(<<"Fichier trop volumineux. Taille maximale: ",
                      ToString((MAX_FILE_SIZE \div 1024) \div 1024), "MB">>)
    ELSE NoError

\* validateFileSize: the error it throws, NoError when it returns
validateFileSize(size) ==
    IF size > MAX_FILE_SIZE
    THEN PlainError(<<"Fichier trop volumineux. Taille maximale: ",
                      ToString((MAX_FILE_SIZE \div 1024) \div 1024), "MB">>)
    ELSE NoError

getExtension(contentType) ==
    CASE contentType = "image/jpeg" -> ".jpg"
      [] contentType = "image/jpg" -> ".jpg"
      [] contentType = "image/png" -> ".png"
      [] contentType = "application/pdf" -> ".pdf"
      [] OTHER -> ""

\* generateFileName: timestamp is what Date.now() reads, randomString what
\* crypto.randomBytes(8).toString('hex') draws, environment the value of
\* process.env.ENVIRONMENT (absent or '' gives 'preprod')
generateFileName(originalName, contentType, timestamp, random, environment) ==
    LET extension == getExtension(contentType)
        env == IF environment.has /\ environment.val # ""
               THEN environment.val ELSE "preprod"
    IN  <<env, "/", timestamp, "-", random, extension>>

NoKey == << >>

NoCommand ==
    [Bucket |-> "", Key |-> NoKey, ContentType |-> "",
     Metadata |-> [originalName |-> ""]]

NoUploadUrl == [command |-> NoCommand, expiresIn |-> 0, signature |-> ""]

NoPresigned ==
    [uploadUrl |-> NoUploadUrl, key |-> NoKey, bucket |-> "", expiresIn |-> 0]

\* the one generatePresignedUploadUrl call: its arguments, the calls it
\* made in order, the key and command it built, and how it settled
NoUpload ==
    [pc |-> "idle", fileName |-> "", contentType |-> "", fileSize |-> 0,
     trace |-> << >>, key |-> NoKey, command |-> NoCommand,
     value |-> NoPresigned, error |-> NoError]

FileNames == {"tarte.pdf", "photo.png"}

ContentTypes ==
    {ALLOWED_TYPES[k] : k \in 1..Len(ALLOWED_TYPES)}
        \cup {"image/gif", "text/plain", "IMAGE/PNG"}

FileSizes == {1, MAX_FILE_SIZE - 1, MAX_FILE_SIZE, MAX_FILE_SIZE + 1,
              2 * MAX_FILE_SIZE}

Timestamps == {"1700000000000", "1700000000001"}

RandomStrings == {"00c0ffee00c0ffee", "ffffffffffffffff"}

Environments == {Absent(""), Some(""), Some("prod")}

Signatures == {"X-Amz-Signature=1f", "X-Amz-Signature=2e"}

SigningErrors ==
    {[name |-> "CredentialsProviderError",
      message |-> <<"Could not load credentials from any providers">>,
      errors |-> << >>]}

\* generatePresignedUploadUrl up to its await: the validations, the key,
\* the PutObjectCommand and the getSignedUrl request
generatePresignedUploadUrl(fileName, contentType, fileSize, timestamp, random, environment) ==
    LET called == [NoUpload EXCEPT !.fileName = fileName,
                                   !.contentType = contentType,
                                   !.fileSize = fileSize]
        typeError == validateFileType(contentType)
        sizeError == validateFileSize(fileSize)
        key == generateFileName(fileName, contentType, timestamp,
                                random, environment)
        command == [Bucket |-> BUCKET_NAME, Key |-> key,
                    ContentType |-> contentType,
                    Metadata |-> [originalName |-> fileName]]
    IN  IF typeError # NoError
        THEN upload' = [called EXCEPT !.pc = "threw",
                                      !.trace = <<"validateFileType">>,
                                      !.error = typeError]
        ELSE IF sizeError # NoError
        THEN upload' = [called EXCEPT !.pc = "threw",
                                      !.trace = <<"validateFileType",
                                                  "validateFileSize">>,
                                      !.error = sizeError]
        ELSE upload' = [called EXCEPT !.pc = "awaitSignedUrl",
                                      !.trace = <<"validateFileType",
                                                  "validateFileSize",
                                                  "generateFileName",
                                                  "getSignedUrl">>,
                                      !.key = key,
                                      !.command = command]

GeneratePresignedUploadUrl ==
    /\ upload.pc = "idle"
    /\ \E fileName \in FileNames, contentType \in ContentTypes,
          fileSize \in FileSizes, timestamp \in Timestamps,
          randomString \in RandomStrings, environment \in Environments :
          generatePresignedUploadUrl(fileName, contentType, fileSize,
                                     timestamp, randomString, environment)
    /\ UNCHANGED <<routerVars, recipeVars, read, dbVars, controllerVars,
                   handlerVars>>

\* getSignedUrl resolves: the call returns {uploadUrl, key, bucket, expiresIn}
SignedUrlResolves ==
    /\ upload.pc = "awaitSignedUrl"
    /\ \E signature \in Signatures :
          upload' = [upload EXCEPT
              !.pc = "returned",
              !.value = [uploadUrl |-> [command |-> upload.command,
                                        expiresIn |-> SignedUrlExpiresIn,
                                        signature |-> signature],
                         key |-> upload.key,
                         bucket |-> BUCKET_NAME,
                         expiresIn |-> ResultExpiresIn]]
    /\ UNCHANGED <<routerVars, recipeVars, read, dbVars, controllerVars,
                   handlerVars>>

\* getSignedUrl rejects: the call rejects with the same error
SignedUrlRejects ==
    /\ upload.pc = "awaitSignedUrl"
    /\ \E error \in SigningErrors :
          upload' = [upload EXCEPT !.pc = "threw", !.error = error]
    /\ UNCHANGED <<routerVars, recipeVars, read, dbVars, controllerVars,
                   handlerVars>>

\* The caller has the outcome.
UploadDone ==
    /\ upload.pc \in {"returned", "threw"}
    /\ upload' = NoUpload
    /\ UNCHANGED <<routerVars, recipeVars, read, dbVars, controllerVars,
                   handlerVars>>

UploadIdle == upload = NoUpload

DbIdle ==
    /\ cache = NoCache
    /\ mongoose = Disconnected
    /\ fetches = NoFetches
    /\ acquirers = [c \in Callers |-> Outside]

ControllerIdle ==
    /\ request = NoRequest
    /\ response = NoReply

RecipeIdle ==
    /\ recipeData = NoInput
    /\ input0 = NoInput
    /\ saves = << >>
    /\ result = NoResult
    /\ store = << >>
    /\ read = NoRead

RouterIdle ==
    /\ routes = << >>
    /\ pc = "idle"
    /\ event0 = NoEvent
    /\ event = NoEvent
    /\ calls = << >>
    /\ outcome = Pending

Init == RouterIdle /\ RecipeIdle /\ DbIdle /\ ControllerIdle /\ HandlerIdle /\ UploadIdle

RouterNext == AddRoute \/ Route \/ HandlerReturns \/ HandlerThrows \/ RouteDone

RouterSpec == Init /\ [][RouterNext]_vars

RecipeNext == AddRecipe \/ ServiceDone

RecipeSpec == Init /\ [][RecipeNext]_vars

JsonNext == AddJsonRecipe \/ ServiceDone

JsonSpec == Init /\ [][JsonNext]_vars

CatalogNext == AddCatalogRecipe \/ GetRecipeById \/ GetAllRecipes \/ ServiceDone

CatalogSpec == Init /\ [][CatalogNext]_vars

DbNext ==
    \/ \E c \in Callers : GetDb(c)
    \/ \E c \in Callers : UriSettled(c)
    \/ \E c \in Callers : DbNameSettled(c)
    \/ \E c \in Callers : ConnectSettled(c)
    \/ \E c \in Callers : Acquired(c)
    \/ ConfigAnswers
    \/ ConnectionSettles
    \/ ConnectionDrops

DbSpec == Init /\ [][DbNext]_vars

TagNext == AddTaggedRecipe \/ GetRecipesTagged \/ ServiceDone

TagSpec == Init /\ [][TagNext]_vars

CacheNext ==
    \/ DbNext
    \/ \E c \in Callers : CloseDb(c)
    \/ \E c \in Callers : CloseDbResumes(c)
    \/ \E c \in Callers : CloseDbDone(c)

CacheSpec == Init /\ [][CacheNext]_vars

HandlerNext ==
    \/ LoadModule
    \/ Handler
    \/ UriSettled(Invoker)
    \/ DbNameSettled(Invoker)
    \/ ConnectSettled(Invoker)
    \/ ConfigAnswers
    \/ ConnectionSettles
    \/ ConnectionDrops
    \/ HandlerRoutes
    \/ HandlerCatchesGetDb
    \/ HandlerReturns
    \/ HandlerThrows
    \/ HandlerSettles
    \/ HandlerDone

HandlerSpec == Init /\ [][HandlerNext]_vars

UploadNext ==
    \/ GeneratePresignedUploadUrl
    \/ SignedUrlResolves
    \/ SignedUrlRejects
    \/ UploadDone

UploadSpec == Init /\ [][UploadNext]_vars

ControllerNext == CreateRecipe \/ GetRecipe \/ ListRecipes \/ ControllerDone

ControllerSpec == Init /\ [][ControllerNext]_vars

(***************************************************************************)
(* Properties of the router.                                               *)
(*                                                                         *)
(* "The pattern matches the path" is stated here on its own, not through   *)
(* the matcher above: the path is the pattern text itself, or the atoms of *)
(* the pattern can be laid over the whole path, every placeholder over a   *)
(* non-empty run of characters other than "/".                             *)
(***************************************************************************)
RECURSIVE Covers(_, _, _, _)
Covers(atoms, k, s, j) ==
    IF k > Len(atoms) THEN j = Len(s) + 1
    ELSE IF atoms[k].type = "group"
    THEN \E n \in 1..(Len(s) - j + 1) :
            /\ \A q \in j..(j + n - 1) : s[q] # "/"
            /\ Covers(atoms, k + 1, s, j + n)
    ELSE /\ j <= Len(s)
         /\ atoms[k].type = "lit" => s[j] = atoms[k].ch
         /\ Covers(atoms, k + 1, s, j + 1)

PatternMatches(pattern, path) ==
    \/ pattern = path
    \/ Covers(routePattern(pattern), 1, path, 1)

RequestMethod == IF event0.rcMethod # "" THEN event0.rcMethod ELSE event0.httpMethod

RequestPath == IF event0.rcPath # << >> THEN event0.rcPath ELSE event0.path

\* the registered routes that have the request's method and match its path
Candidates ==
    {k \in 1..Len(routes) :
        /\ routes[k].method = RequestMethod
        /\ PatternMatches(routes[k].path, RequestPath)}

HasPlaceholders(pattern) == Len(paramNames(pattern)) > 0

\* C1: a request that no registered route both has the method of and matches
\* the path of is answered with the 404 'Route non trouvée' response, no
\* handler is invoked and the request object is left as it was.
C1_NotFound ==
    (pc # "idle" /\ Candidates = {}) =>
        /\ pc = "done"
        /\ outcome.kind = "returned"
        /\ outcome.response.statusCode = 404
        /\ outcome.response.body = "{\"error\":\"Route non trouvée\"}"
        /\ calls = << >>
        /\ event = event0

\* C1 witness: the path matches a route registered only under another method.
C1_Witness ==
    /\ pc = "done"
    /\ Candidates = {}
    /\ \E k \in 1..Len(routes) :
          /\ routes[k].method # RequestMethod
          /\ PatternMatches(routes[k].path, RequestPath)
    /\ outcome = Returned(NotFoundResponse)

\* Parts of C2: one handler call, of the earliest candidate; the example of
\* the two overlapping routes; the route list only grows at its end.
C2_OneHandler ==
    (pc # "idle" /\ Candidates # {}) =>
        /\ Len(calls) = 1
        /\ calls[1].route = SetMin(Candidates)
        /\ calls[1].handler = routes[SetMin(Candidates)].handler

C2_Example ==
    ( /\ pc # "idle"
      /\ Len(routes) >= 2
      /\ routes[1] = [method |-> "GET", path |-> <<"/", "r", "/", "{", "i", "}">>, handler |-> 1]
      /\ routes[2] = [method |-> "GET", path |-> <<"/", "r", "/", "s">>, handler |-> 2]
      /\ RequestMethod = "GET"
      /\ RequestPath = <<"/", "r", "/", "s">> ) =>
        /\ Len(calls) = 1
        /\ calls[1].handler = 1
        /\ <<"i">> \in DOMAIN calls[1].arg.pathParameters.map
        /\ calls[1].arg.pathParameters.map[<<"i">>] = <<"s">>

C2_AppendOnly ==
    routes' # routes =>
        /\ Len(routes') = Len(routes) + 1
        /\ SubSeq(routes', 1, Len(routes)) = routes

\* C2: addRoute only ever appends (duplicates included), and a request with
\* candidates has exactly one handler invoked, that of the earliest
\* candidate; with GET /r/{i} registered before GET /r/s, GET /r/s goes to
\* the first route with i = "s".
C2_Precedence ==
    /\ [](C2_OneHandler /\ C2_Example)
    /\ [][C2_AppendOnly]_vars

\* C2 witness: two candidates (the same route registered twice counts), the
\* first one served.
C2_Witness ==
    /\ pc = "done"
    /\ Cardinality(Candidates) >= 2
    /\ calls[1].route = 1
    /\ routes[1].path = <<"/", "r", "/", "{", "i", "}">>
    /\ routes[2].path = <<"/", "r", "/", "s">>
    /\ calls[1].arg.pathParameters.map[<<"i">>] = <<"s">>

\* The route whose handler was invoked, and what the request carried before.
Selected == routes[calls[1].route]

Previous == IF event0.pathParameters.present THEN event0.pathParameters.map ELSE NoParams

PlaceholderMatch ==
    /\ pc # "idle"
    /\ calls # << >>
    /\ Selected.path # RequestPath
    /\ HasPlaceholders(Selected.path)

\* caps laid over the path as the captures of the pattern's placeholders
RECURSIVE LaidOver(_, _, _, _, _, _)
LaidOver(atoms, k, caps, c, s, j) ==
    IF k > Len(atoms) THEN j = Len(s) + 1
    ELSE IF atoms[k].type = "group"
    THEN /\ Len(caps[c]) >= 1
         /\ j + Len(caps[c]) - 1 <= Len(s)
         /\ SubSeq(s, j, j + Len(caps[c]) - 1) = caps[c]
         /\ \A q \in 1..Len(caps[c]) : caps[c][q] # "/"
         /\ LaidOver(atoms, k + 1, caps, c + 1, s, j + Len(caps[c]))
    ELSE /\ j <= Len(s)
         /\ atoms[k].type = "lit" => s[j] = atoms[k].ch
         /\ LaidOver(atoms, k + 1, caps, c, s, j + 1)

Pieces(s) == {SubSeq(s, a, b) : a \in 1..Len(s), b \in 1..Len(s)} \ {<< >>}

Captures(pattern, path) ==
    {caps \in [1..Len(paramNames(pattern)) -> Pieces(path)] :
        LaidOver(routePattern(pattern), 1, caps, 1, path, 1)}

PlaceholderNames(pattern) ==
    {paramNames(pattern)[k] : k \in 1..Len(paramNames(pattern))}

LastBearing(pattern, n) ==
    SetMax({k \in 1..Len(paramNames(pattern)) : paramNames(pattern)[k] = n})

\* C3, as amended: on a placeholder match the handler receives the request
\* with pathParameters = the previous mapping (empty when absent) plus, for
\* every placeholder name, the segment captured by the last placeholder
\* bearing that name (the i-th capture for the i-th placeholder when the
\* names are distinct); other keys keep their entries, an existing entry
\* under a placeholder name is overwritten, nothing else of the request
\* changes.
C3_PathParameters ==
    PlaceholderMatch =>
        \E caps \in Captures(Selected.path, RequestPath) :
            LET got == calls[1].arg.pathParameters
            IN  /\ got.present
                /\ DOMAIN got.map = (DOMAIN Previous) \cup PlaceholderNames(Selected.path)
                /\ \A n \in PlaceholderNames(Selected.path) :
                      got.map[n] = caps[LastBearing(Selected.path, n)]
                /\ \A n \in (DOMAIN Previous) \ PlaceholderNames(Selected.path) :
                      got.map[n] = Previous[n]
                /\ calls[1].arg = [event0 EXCEPT !.pathParameters = got]
                /\ event = calls[1].arg

\* C3 witness: an entry under a placeholder name is overwritten and an entry
\* under another key is kept.
C3_Witness ==
    /\ PlaceholderMatch
    /\ pc = "done"
    /\ Selected.path = <<"/", "r", "/", "{", "i", "}">>
    /\ DOMAIN Previous = {<<"i">>, <<"k">>}
    /\ calls[1].arg.pathParameters.map[<<"i">>] = <<"x">>
    /\ calls[1].arg.pathParameters.map[<<"k">>] = <<"o">>

\* C3 as first stated: the i-th placeholder's name maps to the i-th captured
\* segment, for every i.
C3_Original ==
    PlaceholderMatch =>
        \E caps \in Captures(Selected.path, RequestPath) :
            \A k \in 1..Len(paramNames(Selected.path)) :
                /\ paramNames(Selected.path)[k] \in DOMAIN calls[1].arg.pathParameters.map
                /\ calls[1].arg.pathParameters.map[paramNames(Selected.path)[k]] = caps[k]

\* C4: on an exact match (the pattern string is the path, character for
\* character) the handler is invoked with the request as received and the
\* router has neither created nor changed its pathParameters, also when the
\* pattern text contains a {name} placeholder.
C4_ExactMatch ==
    (pc # "idle" /\ calls # << >> /\ Selected.path = RequestPath) =>
        /\ calls[1].arg = event0
        /\ event = event0

\* C4 witness: the pattern /r/{i} requested as the literal path /r/{i}, the
\* request carrying no pathParameters.
C4_Witness ==
    /\ pc = "done"
    /\ calls # << >>
    /\ Selected.path = RequestPath
    /\ HasPlaceholders(Selected.path)
    /\ ~event0.pathParameters.present
    /\ ~event.pathParameters.present

\* C5: route settles only when the selected handler has; when the handler
\* fails route fails with that very failure (never a response, never the
\* 404) and no other route's handler is tried.
C5_HandlerFailure ==
    /\ pc = "awaiting" => outcome = Pending
    /\ \A k \in 1..Len(calls) :
          /\ calls[k].answer.kind = "threw" =>
                /\ pc = "done"
                /\ outcome.kind = "threw"
                /\ outcome.error = calls[k].answer.error
                /\ Len(calls) = 1
          /\ calls[k].answer.kind = "returned" =>
                outcome = Returned(calls[k].answer.response)

\* C5 witness: the first of two candidate routes failed.
C5_Witness ==
    /\ pc = "done"
    /\ Cardinality(Candidates) >= 2
    /\ calls[1].answer = Threw("Database error")
    /\ outcome = Threw("Database error")

\* C6: the method and the path are requestContext.http's when present and
\* else httpMethod and path, and a request is routed exactly as the
\* structured-shape request with that method, that path and the same
\* pathParameters: same handler, same path parameters.
StructuredTwin == StructuredEvent(RequestMethod, RequestPath, event0.pathParameters)

C6_BothShapes ==
    pc # "idle" =>
        LET i == scanRoutes(routes, 1, StructuredTwin.rcMethod, StructuredTwin.rcPath)
        IN  /\ calls = << >> <=> i = 0
            /\ i # 0 =>
                 /\ calls[1].route = i
                 /\ calls[1].handler = routes[i].handler
                 /\ routes[i].method = RequestMethod
                 /\ calls[1].arg.pathParameters =
                      eventForHandler(StructuredTwin, routes[i], RequestPath).pathParameters

\* C6 witness: a legacy-shape request served through a placeholder.
C6_Witness ==
    /\ pc = "done"
    /\ event0.rcMethod = ""
    /\ event0.rcPath = << >>
    /\ event0.httpMethod = "GET"
    /\ event0.path = <<"/", "r", "/", "x">>
    /\ calls # << >>
    /\ calls[1].arg.pathParameters.map[<<"i">>] = <<"x">>

(***************************************************************************)
(* Properties of addRecipe.                                                *)
(***************************************************************************)
Called == result.kind # "none"

HasDuplicateOrders(steps) ==
    \E i, j \in 1..Len(steps) : i # j /\ steps[i].order = steps[j].order

\* C7: an input whose steps hold two entries with the same order fails with
\* the fixed duplicate-step-order error and nothing is handed to
\* persistence, whatever else is wrong with the input.
C7_DuplicateOrder ==
    (Called /\ input0.steps.has /\ HasDuplicateOrders(input0.steps.val)) =>
        /\ result.kind = "threw"
        /\ result.error.name = "Error"
        /\ result.error.message = <<"Les numéros d'ordre des étapes doivent être uniques">>
        /\ saves = << >>

\* C7 witness: duplicate orders that are not neighbours, in an input that
\* has no title either.
C7_Witness ==
    /\ Called
    /\ ~input0.title.has
    /\ Len(input0.steps.val) = 3
    /\ input0.steps.val[1].order = input0.steps.val[3].order
    /\ input0.steps.val[1].order # input0.steps.val[2].order
    /\ result = Rejected(PlainError(DuplicateOrderMessage))
    /\ saves = << >>

RECURSIVE Ascending(_)
Ascending(S) == IF S = {} THEN << >> ELSE <<SetMin(S)>> \o Ascending(S \ {SetMin(S)})

\* the lowercased, trimmed tags, each kept at its first occurrence only
ExpectedTags(tags) ==
    LET norm == [k \in 1..Len(tags) |-> trim(toLowerCase(tags[k]))]
        kept == Ascending({k \in 1..Len(tags) : \A j \in 1..(k - 1) : norm[j] # norm[k]})
    IN  [i \in 1..Len(kept) |-> norm[kept[i]]]

\* C9: for a non-empty tag sequence the tags handed to persistence are the
\* lowercased, trimmed tags with duplicates removed, first occurrences kept
\* in input order; normalizing that output again changes nothing.
C9_TagNormalization ==
    (saves # << >> /\ input0.tags.has /\ Len(input0.tags.val) > 0) =>
        LET handed == saves[1].data.tags.val
        IN  /\ saves[1].data.tags.has
            /\ handed = ExpectedTags(input0.tags.val)
            /\ \A k \in 1..Len(handed) :
                  /\ \A q \in 1..Len(handed[k]) : handed[k][q] \notin {"A", "B", "T"}
                  /\ handed[k] # << >> =>
                        handed[k][1] # " " /\ handed[k][Len(handed[k])] # " "
                  /\ \A j \in 1..Len(handed) : j # k => handed[j] # handed[k]
            /\ normalizeTags(handed) = handed

\* C9 witness: ['Ta', 'TB', 'ta', ' Tc '] handed over as ['ta', 'tb', 'tc'].
C9_Witness ==
    /\ Called
    /\ input0.tags = Some(TagExample)
    /\ Len(saves) = 1
    /\ saves[1].data.tags.val = << <<"t", "a">>, <<"t", "b">>, <<"t", "c">> >>

\* C10: when save fails with a validation failure addRecipe fails with one
\* error whose message is 'Validation échouée: ' followed by every field
\* message, joined by ', '; when save fails otherwise addRecipe fails with
\* that very failure, which does not carry the marker.
C10_FailureTranslation ==
    \A k \in 1..Len(saves) :
        LET rejection == saves[k].rejection
            messages  == [i \in 1..Len(rejection.errors) |-> rejection.errors[i].message]
        IN  /\ rejection.name = "ValidationError" =>
                  /\ result.kind = "threw"
                  /\ result.error.name = "Error"
                  /\ Len(result.error.message) = 2 * Len(messages)
                  /\ result.error.message[1] = "Validation échouée: "
                  /\ \A i \in 1..Len(messages) :
                        /\ result.error.message[2 * i] = messages[i]
                        /\ i > 1 => result.error.message[2 * i - 1] = ", "
            /\ (rejection # NoError /\ rejection.name # "ValidationError") =>
                  /\ result = Rejected(rejection)
                  /\ result.error.message[1] # "Validation échouée: "

\* C10 witness: a save rejected for three invalid fields.
C10_Witness ==
    /\ Called
    /\ Len(saves) = 1
    /\ saves[1].rejection.name = "ValidationError"
    /\ Len(saves[1].rejection.errors) = 3
    /\ result.error.message =
          <<"Validation échouée: ", "Le titre de la recette est requis", ", ",
            "Le nombre de portions doit être au moins 1", ", ",
            "Au moins un ingrédient est requis">>

\* a save rejected by the connection reaches the caller as it is
C10_FaultReached ==
    /\ Called
    /\ Len(saves) = 1
    /\ saves[1].rejection \in SaveFaults
    /\ result = Rejected(saves[1].rejection)

(***************************************************************************)
(* Properties of getRecipeById and getAllRecipes.                          *)
(***************************************************************************)
Looked == read.op = "getRecipeById"

Holders(recipeId) == {k \in 1..Len(store) : store[k].id = recipeId.key}

\* C11: getRecipeById returns the absent result, without raising, when no
\* record has the identifier and when the identifier is malformed (whatever
\* else the persistence layer would have reported); it returns the record
\* when one exists; any other persistence failure is raised unchanged.
C11_AbsencePolicy ==
    Looked =>
        /\ ~read.id.wellFormed =>
              /\ read.kind = "returned"
              /\ ~read.found.has
        /\ (read.id.wellFormed /\ read.fault = NoError /\ Holders(read.id) = {}) =>
              /\ read.kind = "returned"
              /\ ~read.found.has
        /\ (read.id.wellFormed /\ read.fault = NoError /\ Holders(read.id) # {}) =>
              /\ read.kind = "returned"
              /\ read.found.has
              /\ \E k \in Holders(read.id) : read.found.val = store[k]
        /\ (read.id.wellFormed /\ read.fault # NoError) =>
              /\ read.kind = "threw"
              /\ read.error = read.fault

\* C11 witness: with a recipe in the store, a malformed identifier is
\* answered with the absent result while the connection is failing.
C11_Witness ==
    /\ Looked
    /\ Len(store) > 0
    /\ ~read.id.wellFormed
    /\ read.fault # NoError
    /\ read.kind = "returned"
    /\ ~read.found.has

\* reached: a lookup that finds the record
C11_FoundReached ==
    /\ Looked
    /\ read.kind = "returned"
    /\ read.found.has

Listed == read.op = "getAllRecipes" /\ read.kind = "returned"

Requested == IF read.options.has THEN read.options.val ELSE NoOptions

TagSet(doc) == {doc.tags[k] : k \in 1..Len(doc.tags)}

RequestedTags == {Requested.tags.val[k] : k \in 1..Len(Requested.tags.val)}

\* the stored recipes the tag filter lets through
Eligible ==
    {k \in 1..Len(store) :
        (Requested.tags.kind = "array" /\ Len(Requested.tags.val) > 0)
            => RequestedTags \subseteq TagSet(store[k])}

\* recipe k is in the listing, or pagination may have cut it off
Reachable(k) ==
    \/ \E j \in 1..Len(read.list) : read.list[j] = store[k]
    \/ read.query.skip > 0
    \/ (read.query.limit > 0 /\ Len(read.list) >= read.query.limit)

\* C12: a listing with a non-empty tags option holds only recipes whose
\* tags contain every requested tag, and leaves such a recipe out only for
\* pagination; with tags absent, null or empty no recipe is left out for its
\* tags.
C12_TagFilter ==
    Listed =>
        /\ \A j \in 1..Len(read.list) :
              \E k \in Eligible : read.list[j] = store[k]
        /\ \A k \in Eligible : Reachable(k)
        /\ (read.query.skip = 0 /\ read.query.limit >= Len(store)) =>
              {read.list[j] : j \in 1..Len(read.list)} = {store[k] : k \in Eligible}

\* C12 witness: of two stored recipes, one tagged italien and rapide and one
\* tagged italien only, a listing for [italien, rapide] holds the first
\* alone.
C12_Witness ==
    /\ Listed
    /\ Len(store) = 2
    /\ TagSet(store[1]) = {italien, rapide}
    /\ TagSet(store[2]) = {italien}
    /\ Requested.tags = TagsOption("array", <<italien, rapide>>)
    /\ read.list = <<store[1]>>

\* reached: the same recipe is refused for [italien, vegetarien]
C12_RefusedReached ==
    /\ Listed
    /\ Len(store) = 1
    /\ TagSet(store[1]) = {italien, rapide}
    /\ Requested.tags = TagsOption("array", <<italien, vegetarien>>)
    /\ read.list = << >>

\* the options in effect: the value given, the default when absent
Limit == IF Requested.limit.has THEN Requested.limit.val ELSE 50

Skip == IF Requested.skip.has THEN Requested.skip.val ELSE 0

SortBy == IF Requested.sortBy.has THEN Requested.sortBy.val ELSE "createdAt"

Descending == Requested.sortOrder.has => Requested.sortOrder.val = "desc"

InOrder(a, b) ==
    IF Descending
    THEN sortKey(a, SortBy) >= sortKey(b, SortBy)
    ELSE sortKey(a, SortBy) <= sortKey(b, SortBy)

\* the eligible recipes, each once, ordered by the sort field
SortedEligible ==
    { seq \in [1..Cardinality(Eligible) -> {store[k] : k \in Eligible}] :
        /\ \A a, b \in 1..Len(seq) : a # b => seq[a] # seq[b]
        /\ \A a, b \in 1..Len(seq) : a < b => InOrder(seq[a], seq[b]) }

Window(seq, from, count) ==
    SubSeq(seq, from + 1, IF from + count < Len(seq) THEN from + count ELSE Len(seq))

\* C13: the listing is the eligible recipes ordered by sortBy (descending
\* for 'desc', ascending otherwise), less the first skip of them, cut to at
\* most limit records.
C13_SortAndPagination ==
    Listed =>
        /\ Len(read.list) <= Limit
        /\ \E seq \in SortedEligible : read.list = Window(seq, Skip, Limit)

\* The same for a limit that is not 0.
C13_PositiveLimit ==
    (Listed /\ Limit > 0) =>
        /\ Len(read.list) <= Limit
        /\ \E seq \in SortedEligible : read.list = Window(seq, Skip, Limit)

\* reached: three recipes listed by title ascending, the second and third
\* returned for skip 1, limit 2
C13_PageReached ==
    /\ Listed
    /\ Len(store) = 3
    /\ Requested.sortBy = Some("title")
    /\ Skip = 1
    /\ Limit = 2
    /\ Len(read.list) = 2
    /\ collate(read.list[1].title) < collate(read.list[2].title)

\* reached: a limit of 0 answered with a stored recipe
C13_UnlimitedReached ==
    /\ Listed
    /\ Requested.limit = Some(0)
    /\ Len(read.list) > 0

Queried == read.op = "getAllRecipes"

DefaultQuery ==
    [filter |-> [tags |-> Absent(<< >>)],
     sort |-> [field |-> "createdAt", direction |-> -1],
     limit |-> 50,
     skip |-> 0]

\* C14: each absent option takes its default whatever the others are (limit
\* 50, skip 0, sortBy createdAt, sortOrder desc, tags no filter), a present
\* one its value; a call with no options queries with the empty filter, sort
\* {createdAt: -1}, limit 50 and skip 0.
C14_Defaults ==
    Queried =>
        /\ ~Requested.limit.has => read.query.limit = 50
        /\ Requested.limit.has => read.query.limit = Requested.limit.val
        /\ ~Requested.skip.has => read.query.skip = 0
        /\ Requested.skip.has => read.query.skip = Requested.skip.val
        /\ ~Requested.sortBy.has => read.query.sort.field = "createdAt"
        /\ Requested.sortBy.has => read.query.sort.field = Requested.sortBy.val
        /\ ~Requested.sortOrder.has => read.query.sort.direction = -1
        /\ Requested.tags.kind = "undefined" => ~read.query.filter.tags.has
        /\ (~read.options.has \/ read.options.val = NoOptions) => read.query = DefaultQuery

\* C14 witness: a call that gives only sortBy and sortOrder queries with
\* limit 50, skip 0 and no filter.
C14_Witness ==
    /\ Queried
    /\ read.options.has
    /\ Requested.sortBy = Some("title")
    /\ Requested.sortOrder = Some("asc")
    /\ ~Requested.limit.has
    /\ ~Requested.skip.has
    /\ read.query.limit = 50
    /\ read.query.skip = 0
    /\ read.query.sort = [field |-> "title", direction |-> 1]
    /\ ~read.query.filter.tags.has

\* reached: a call without the options argument
C14_NoArgumentReached ==
    /\ Queried
    /\ ~read.options.has
    /\ read.query = DefaultQuery

(***************************************************************************)
(* Properties of getDb.                                                    *)
(***************************************************************************)
\* the connection was never refused and never lost
Steady == mongoose.failures = 0 /\ mongoose.drops = 0

\* the callers that hold a connection returned by getDb
Holding == {c \in Callers : acquirers[c].pc = "returned"}

C15_OneConnect ==
    Steady =>
        /\ mongoose.connects <= 1
        /\ \A c, d \in Holding : acquirers[c].value = acquirers[d].value

\* a call made while the flag is set and the connection open returns at
\* once, with no request to the configuration and no connect
WarmCall ==
    \A c \in Callers :
        ( /\ acquirers[c].pc = "idle"
          /\ acquirers'[c].pc # "idle"
          /\ cache.isConnected
          /\ mongoose.readyState = 1 )
        => /\ acquirers'[c].pc = "returned"
           /\ fetches' = fetches
           /\ mongoose' = mongoose

C15_WarmCall == [][WarmCall]_vars

\* C15: while the connection is neither refused nor lost, any interleaving
\* of getDb calls initiates the connect at most once and returns the same
\* connection to every caller; a call made once the connection is ready
\* returns without fetching configuration or connecting again.
C15_SingleFlight == []C15_OneConnect /\ C15_WarmCall

\* reached: two callers each called connect, and both were handed the one
\* connection that opened
C15_TwoConnectsReached ==
    /\ Steady
    /\ mongoose.connects = 2
    /\ Holding = {1, 2}

(***************************************************************************)
(* Properties of the store.                                                *)
(***************************************************************************)
Ids(st) == {st[k].id : k \in 1..Len(st)}

\* a step changes the store only by a successful addRecipe, which appends
\* the recipe it returns under an identifier no stored recipe has
OnlyAdded ==
    store' # store =>
        /\ result.kind = "none"
        /\ result'.kind = "returned"
        /\ store' = Append(store, result'.value)
        /\ result'.value.id \notin Ids(store)

\* a failed addRecipe and the two reads leave the store as it was
FailuresAndReadsKeep ==
    (result'.kind = "threw" \/ read'.op # "none") => store' = store

\* no stored recipe is modified or removed
NothingTouched ==
    /\ Len(store') >= Len(store)
    /\ \A k \in 1..Len(store) : store'[k] = store[k]

\* a successful addRecipe has stored what it returns, and a lookup returns
\* the one stored recipe that has the identifier
ReturnedIsStored ==
    /\ result.kind = "returned" =>
          \E k \in 1..Len(store) : store[k] = result.value
    /\ \A j, k \in 1..Len(store) : store[j].id = store[k].id => j = k
    /\ (Looked /\ read.fault = NoError /\ read.id.wellFormed) =>
          \A k \in 1..Len(store) :
              store[k].id = read.id.key => read.found = Some(store[k])

\* C16: the store changes only by a successful addRecipe, which adds one
\* record under a fresh identifier; a failed addRecipe, getRecipeById and
\* getAllRecipes leave it unchanged; no record is ever modified or removed,
\* and a lookup on the identifier of a recipe addRecipe returned returns
\* that recipe.
C16_StoreLifecycle ==
    /\ [][OnlyAdded /\ FailuresAndReadsKeep /\ NothingTouched]_vars
    /\ []ReturnedIsStored

\* C16 witness: the first of two added recipes is looked up after the
\* second was added, and comes back as it was stored.
C16_Witness ==
    /\ Looked
    /\ Len(store) >= 2
    /\ read.id = ObjectId(store[1].id)
    /\ read.found = Some(store[1])
    /\ store[2].id # store[1].id

\* reached: an addRecipe that failed with a recipe already stored
C16_FailedAddReached ==
    /\ result.kind = "threw"
    /\ Len(store) > 0

(***************************************************************************)
(* Properties of the data model.                                           *)
(***************************************************************************)
WellFormedRecipe(doc) ==
    /\ doc.title # ""
    /\ Len(doc.title) <= TitleMaxLength
    /\ isInteger(doc.servings)
    /\ ~below(doc.servings, 1)
    /\ Len(doc.ingredients) >= 1
    /\ \A k \in 1..Len(doc.ingredients) : doc.ingredients[k].name # ""
    /\ Len(doc.steps) >= 1
    /\ \A k \in 1..Len(doc.steps) : doc.steps[k].order >= 1 /\ doc.steps[k].text # ""

\* the input breaks one of the constraints of the data model
Violating(data) ==
    \/ ~data.title.has
    \/ ~data.servings.has
    \/ ~data.ingredients.has
    \/ ~data.steps.has
    \/ ~WellFormedRecipe([title |-> data.title.val, servings |-> data.servings.val,
                          ingredients |-> data.ingredients.val, steps |-> data.steps.val])

\* C17: every persisted recipe has a non-empty title of at most 200
\* characters, an integer servings >= 1, at least one ingredient, each with a
\* non-empty name, and at least one step, each with an order >= 1 and a
\* non-empty text; an input that breaks one of these (its step orders being
\* distinct) is rejected with the validation-failed error and is not written.
C17_DataModel ==
    /\ \A k \in 1..Len(store) : WellFormedRecipe(store[k])
    /\ (Called /\ Violating(input0)
           /\ ~(input0.steps.has /\ HasDuplicateOrders(input0.steps.val))) =>
          /\ result.kind = "threw"
          /\ result.error.message[1] = "Validation échouée: "
          /\ \A k \in 1..Len(saves) : saves[k].rejection # NoError

\* The same with servings any number >= 1.
C17_NumberServings ==
    /\ \A k \in 1..Len(store) :
          WellFormedRecipe([store[k] EXCEPT !.servings = Whole(store[k].servings.int)])
    /\ (Called
           /\ Violating([input0 EXCEPT !.servings.val = Whole(input0.servings.val.int)])
           /\ ~(input0.steps.has /\ HasDuplicateOrders(input0.steps.val))) =>
          /\ result.kind = "threw"
          /\ result.error.message[1] = "Validation échouée: "
          /\ \A k \in 1..Len(saves) : saves[k].rejection # NoError

\* reached: a recipe persisted with servings 1.5
C17_HalfServingReached ==
    \E k \in 1..Len(store) : store[k].servings = AndAHalf(1)

(***************************************************************************)
(* Properties of the controller.                                           *)
(***************************************************************************)
Creating == request.handler = "createRecipe"

DuplicateOrderFailure ==
    /\ Creating
    /\ result.kind = "threw"
    /\ result.error.message = DuplicateOrderMessage

\* C18: createRecipe answers the duplicate-step-order failure of addRecipe
\* with a client error (a 4xx status), not a server error.
C18_DuplicateOrderIsClientError ==
    DuplicateOrderFailure =>
        /\ response.statusCode >= 400
        /\ response.statusCode <= 499

C19_ValidationReached ==
    /\ Creating
    /\ result.kind = "threw"
    /\ response.statusCode = 400
    /\ response.body.error = <<"Validation échouée: ", "Le titre de la recette est requis">>

\* reached: a failing connection answered 500
C19_FaultReached ==
    /\ Creating
    /\ result.kind = "threw"
    /\ result.error.name = "MongoNetworkError"
    /\ response.statusCode = 500

Getting == request.handler = "getRecipe"

\* C20: getRecipe always returns a response: 400 'ID de la recette
\* manquant', without calling the service, when pathParameters is absent or
\* has no id; 400 'Recette non trouvée' when the service returns the absent
\* result, for a malformed identifier as for one no recipe has; 200 with the
\* recipe when it is found; 500 when the service raises.
C20_GetRecipeStatus ==
    Getting =>
        /\ response.statusCode \in {200, 400, 500}
        /\ (~request.pathParameters.present \/ request.pathParameters.id.kind # "given") =>
              /\ response = badRequest(<<"ID de la recette manquant">>)
              /\ ~Looked
        /\ (request.pathParameters.present /\ request.pathParameters.id.kind = "given") =>
              /\ Looked
              /\ read.id = request.pathParameters.id.value
        /\ (Looked /\ read.kind = "returned" /\ ~read.found.has) =>
              response = badRequest(<<"Recette non trouvée">>)
        /\ (Looked /\ read.kind = "returned" /\ read.found.has) =>
              /\ response.statusCode = 200
              /\ response.body.data = read.found
        /\ (Looked /\ read.kind = "threw") => response.statusCode = 500

\* C20 witness: with a recipe stored, a malformed identifier is answered
\* 400 'Recette non trouvée'.
C20_Witness ==
    /\ Getting
    /\ Len(store) > 0
    /\ request.pathParameters.id = IdParam("given", MalformedId)
    /\ response = badRequest(<<"Recette non trouvée">>)

\* reached: the same answer for a well-formed identifier no recipe has
C20_UnknownReached ==
    /\ Getting
    /\ Len(store) > 0
    /\ request.pathParameters.id.kind = "given"
    /\ request.pathParameters.id.value.wellFormed
    /\ response = badRequest(<<"Recette non trouvée">>)

\* reached: a stored recipe answered 200
C20_FoundReached ==
    /\ Getting
    /\ response.statusCode = 200
    /\ response.body.data = Some(store[1])

Listing == request.handler = "getAllRecipes"

\* the options record the service was called with
Handed == read.options.val

Supplied(param) == param.has /\ param.val # << >>

Named(param) == param.has /\ param.val # ""

\* the decimal text of a natural number
RECURSIVE Numeral(_)
Numeral(n) ==
    IF n < 10 THEN <<Digits[n + 1]>>
    ELSE Numeral(n \div 10) \o <<Digits[(n % 10) + 1]>>

\* the texts of a sequence with a comma between neighbours
RECURSIVE CommaSeparated(_)
CommaSeparated(items) ==
    IF items = << >> THEN << >>
    ELSE IF Len(items) = 1 THEN items[1]
    ELSE items[1] \o <<",">> \o CommaSeparated(Tail(items))

DefaultOptions ==
    [limit |-> Some(DefaultLimit), skip |-> Some(0), sortBy |-> Some("createdAt"),
     sortOrder |-> Some("desc"), tags |-> TagsOption("null", << >>)]

NothingSupplied ==
    LET q == request.queryStringParameters
    IN  ~Supplied(q.limit) /\ ~Supplied(q.skip) /\ ~Named(q.sortBy)
        /\ ~Named(q.sortOrder) /\ ~Supplied(q.tags)

\* what the controller passes besides the limit: the defaults, skip, the
\* sort parameters, the tags, and the count of the response
ListingOptions ==
    LET q == request.queryStringParameters
    IN  /\ read.op = "getAllRecipes"
        /\ read.options.has
        /\ NothingSupplied => Handed = DefaultOptions
        /\ \A n \in 0..DefaultLimit :
              q.skip = Some(Numeral(n)) => Handed.skip = Some(n)
        /\ Named(q.sortBy) => Handed.sortBy = q.sortBy
        /\ Named(q.sortOrder) => Handed.sortOrder = q.sortOrder
        /\ Supplied(q.tags) =>
              /\ Handed.tags.kind = "array"
              /\ CommaSeparated(Handed.tags.val) = q.tags.val
        /\ response.statusCode = 200 =>
              response.body.count = Len(response.body.recipes)

\* C21: RecipeController.getAllRecipes calls the service with exactly
\* {limit 50, skip 0, sortBy 'createdAt', sortOrder 'desc', tags null} when
\* the query parameters are absent, null or empty; a supplied limit and
\* skip are passed as the integers they denote, sortBy and sortOrder
\* verbatim, tags split at the commas; the count of the response is the
\* number of recipes in its data.
C21_OptionBuilding ==
    Listing =>
        /\ ListingOptions
        /\ \A n \in 0..DefaultLimit :
              request.queryStringParameters.limit = Some(Numeral(n)) =>
                  Handed.limit = Some(n)

\* C21, the part the code keeps: a supplied limit other than 0 is passed as
\* the integer it denotes, and the rest is as stated.
C21_NonZeroLimit ==
    Listing =>
        /\ ListingOptions
        /\ \A n \in 1..DefaultLimit :
              request.queryStringParameters.limit = Some(Numeral(n)) =>
                  Handed.limit = Some(n)

\* reached: a limit of '10' with a skip of '1' passed as 10 and 1
C21_SuppliedReached ==
    /\ Listing
    /\ request.queryStringParameters.limit = Some(<<"1", "0">>)
    /\ request.queryStringParameters.skip = Some(<<"1">>)
    /\ Handed.limit = Some(10)
    /\ Handed.skip = Some(1)

\* reached: 'i,r' passed as the two tags, answered with a recipe
C21_TagsReached ==
    /\ Listing
    /\ request.queryStringParameters.tags = Some(<<"i", ",", "r">>)
    /\ Handed.tags = TagsOption("array", <<italien, rapide>>)
    /\ response.statusCode = 200
    /\ response.body.count > 0

(***************************************************************************)
(* Properties of the store under addRecipe.                                *)
(***************************************************************************)
DistinctOrders(doc) ==
    \A i, j \in 1..Len(doc.steps) : i # j => doc.steps[i].order # doc.steps[j].order

AscendingSteps(doc) ==
    \A k \in 1..(Len(doc.steps) - 1) : doc.steps[k].order <= doc.steps[k + 1].order

NormalTags(doc) ==
    /\ \A k \in 1..Len(doc.tags) :
          /\ toLowerCase(doc.tags[k]) = doc.tags[k]
          /\ trim(doc.tags[k]) = doc.tags[k]
    /\ \A i, j \in 1..Len(doc.tags) : i # j => doc.tags[i] # doc.tags[j]

\* C22: every persisted recipe has pairwise distinct step order values as
\* stored, its steps in ascending order, and tags that are all lowercase,
\* trimmed and free of duplicates.
C22_StoreInvariant ==
    \A k \in 1..Len(store) :
        /\ DistinctOrders(store[k])
        /\ AscendingSteps(store[k])
        /\ NormalTags(store[k])

\* C22, the part the code keeps: the stored steps ascend and the stored
\* tags are normalized, and the orders are distinct when the input writes
\* them all as numbers.
C22_NumberOrders ==
    \A k \in 1..Len(store) :
        /\ AscendingSteps(store[k])
        /\ NormalTags(store[k])
        /\ (Called /\ \A i \in 1..Len(input0.steps.val) : ~input0.steps.val[i].quoted) =>
              DistinctOrders(store[k])

\* reached: a recipe stored from steps given as [2, 1] and a tag 'B '
C22_SortedReached ==
    /\ Len(store) = 1
    /\ Len(input0.steps.val) = 2
    /\ [k \in 1..2 |-> input0.steps.val[k].order] = <<2, 1>>
    /\ [k \in 1..Len(store[1].steps) |-> store[1].steps[k].order] = <<1, 2>>
    /\ store[1].tags = << <<"b">> >>

(***************************************************************************)
(* Properties of the matcher.                                              *)
(***************************************************************************)
Slashes(s) == Cardinality({k \in 1..Len(s) : s[k] = "/"})

Dispatched == pc # "idle" /\ calls # << >>

\* every placeholder of the selected pattern captured a non-empty piece of
\* the path that holds no slash
NarrowCaptures ==
    PlaceholderMatch =>
        \A caps \in Captures(Selected.path, RequestPath) :
            \A c \in 1..Len(caps) :
                /\ Len(caps[c]) >= 1
                /\ \A q \in 1..Len(caps[c]) : caps[c][q] # "/"

\* C23: a {name} placeholder matches one non-empty path segment that holds
\* no slash and the match is anchored to the whole path, so the pattern of
\* the route a request is dispatched to has as many segments as the
\* request's path: /r/{i} takes neither /r, nor /r/, nor /r/s/x.
C23_PlaceholderWidth ==
    Dispatched =>
        /\ NarrowCaptures
        /\ Slashes(Selected.path) = Slashes(RequestPath)

\* C23, the part the code keeps: the same for a selected pattern that
\* holds no '.'
C23_PlainPattern ==
    (Dispatched /\ \A k \in 1..Len(Selected.path) : Selected.path[k] # ".") =>
        /\ NarrowCaptures
        /\ Slashes(Selected.path) = Slashes(RequestPath)

\* reached: /r/{i} dispatched for /r/x
C23_SegmentReached ==
    /\ Dispatched
    /\ Selected.path = <<"/", "r", "/", "{", "i", "}">>
    /\ RequestPath = <<"/", "r", "/", "x">>

\* /r/{i} is never the route of /r, /r/ or /r/s/x
C23_Examples ==
    (Dispatched /\ Selected.path = <<"/", "r", "/", "{", "i", "}">>) =>
        /\ RequestPath # <<"/", "r">>
        /\ RequestPath # <<"/", "r", "/">>
        /\ RequestPath # <<"/", "r", "/", "s", "/", "x">>

\* the path is the pattern with a slash-free, non-empty text in place of
\* each placeholder, every other character of the pattern standing for
\* itself
RECURSIVE Literally(_, _, _, _)
Literally(atoms, k, s, j) ==
    IF k > Len(atoms) THEN j = Len(s) + 1
    ELSE IF atoms[k].type = "group"
    THEN \E n \in 1..(Len(s) - j + 1) :
            /\ \A q \in j..(j + n - 1) : s[q] # "/"
            /\ Literally(atoms, k + 1, s, j + n)
    ELSE /\ j <= Len(s)
         /\ s[j] = atoms[k].ch
         /\ Literally(atoms, k + 1, s, j + 1)

\* C24: the literal parts of a route pattern match only identical text: the
\* route a request is dispatched to has a pattern whose characters outside
\* the placeholders equal the corresponding characters of the path, and a
\* pattern without placeholders is dispatched to for no path but itself,
\* whatever characters (such as '.') it contains.
C24_LiteralSegments ==
    Dispatched =>
        /\ \/ Selected.path = RequestPath
           \/ Literally(routePattern(Selected.path), 1, RequestPath, 1)
        /\ ~HasPlaceholders(Selected.path) => Selected.path = RequestPath

\* C24, the part the code keeps: the same for a selected pattern that
\* holds no '.'
C24_PlainPattern ==
    (Dispatched /\ \A k \in 1..Len(Selected.path) : Selected.path[k] # ".") =>
        /\ \/ Selected.path = RequestPath
           \/ Literally(routePattern(Selected.path), 1, RequestPath, 1)
        /\ ~HasPlaceholders(Selected.path) => Selected.path = RequestPath

\* reached: the pattern /r.s dispatched for the path /rxs
C24_DotReached ==
    /\ Dispatched
    /\ Selected.path = <<"/", "r", ".", "s">>
    /\ RequestPath = <<"/", "r", "x", "s">>

(***************************************************************************)
(* Properties of the guards of addRecipe.                                  *)
(***************************************************************************)
NoSteps == ~input0.steps.has \/ input0.steps.val = << >>

NoTags == ~input0.tags.has \/ input0.tags.val = << >>

\* what holds of an input without steps whatever its tags: no
\* duplicate-step-order error, the steps handed to persistence as they
\* were, the rejection there translated into the validation-failed error
WithoutSteps ==
    /\ result.error.message # DuplicateOrderMessage
    /\ saves # << >>
    /\ saves[1].data.steps = input0.steps
    /\ saves[1].rejection.name = "ValidationError"
    /\ result.kind = "threw"
    /\ result.error.name = "Error"
    /\ includesMarker(result.error.message)
    /\ \E k \in 1..Len(result.error.message) :
          result.error.message[k] = "Au moins une étape est requise"

\* C25, as stated: an input with absent or empty steps never fails with the
\* duplicate-step-order error, reaches persistence with steps and tags
\* unchanged, and is rejected there with the validation-failed error.
C25_Original ==
    (Called /\ NoSteps) =>
        /\ WithoutSteps
        /\ saves[1].data.tags = input0.tags

\* C25, as amended: an input with absent or empty steps never fails with
\* the duplicate-step-order error, reaches persistence with its steps
\* unchanged and with its tags unchanged when they are absent or empty,
\* normalized when they are not, and is rejected there with the
\* validation-failed error; absent or empty tags are handed over unchanged
\* whatever the steps.
C25_Guards ==
    /\ (Called /\ NoSteps) =>
          /\ WithoutSteps
          /\ NoTags => saves[1].data.tags = input0.tags
          /\ ~NoTags => saves[1].data.tags = Some(ExpectedTags(input0.tags.val))
    /\ (saves # << >> /\ NoTags) => saves[1].data.tags = input0.tags

\* C25 witness: an input without the steps field and with the tag 'B ' is
\* handed to persistence with the tag 'b' and rejected there.
C25_Witness ==
    /\ Called
    /\ ~input0.steps.has
    /\ input0.tags = Some(<< <<"B", " ">> >>)
    /\ saves # << >>
    /\ saves[1].data.tags = Some(<< <<"b">> >>)
    /\ ~saves[1].data.steps.has
    /\ result.kind = "threw"

\* reached: empty steps and empty tags handed over as they were
C25_EmptyReached ==
    /\ Called
    /\ input0.steps = Some(<< >>)
    /\ input0.tags = Some(<< >>)
    /\ saves # << >>
    /\ saves[1].data.steps = Some(<< >>)
    /\ saves[1].data.tags = Some(<< >>)

(***************************************************************************)
(* Properties of the Lambda handler.                                       *)
(***************************************************************************)
RouterAtRest == pc = "idle" /\ calls = << >> /\ outcome = Pending

\* C26: the handler awaits getDb before it routes; when getDb fails the
\* router and the controllers are never invoked; the handler never raises:
\* a failure of getDb or of routing is answered with status 500 and the
\* failure's message, while the router's 404 and the controllers' responses
\* are returned unchanged.
C26_HandlerContainment ==
    /\ lambda.pc \in {"idle", "getDb"} => RouterAtRest
    /\ ~RouterAtRest => (lambda.pc = "route" /\ lambda.db = "returned")
    /\ lambda.db = "threw" =>
          /\ RouterAtRest
          /\ lambda.invoked = 0
          /\ lambda.routed = Pending
    /\ lambda.pc = "done" =>
          /\ lambda.db \in {"returned", "threw"}
          /\ (lambda.db = "threw" \/ lambda.routed.kind = "threw") =>
                /\ lambda.failure # ""
                /\ lambda.reply.statusCode = 500
                /\ lambda.reply.body.error = "Erreur interne du serveur"
                /\ lambda.reply.body.message = lambda.failure
          /\ (lambda.db = "returned" /\ lambda.routed.kind = "returned") =>
                /\ lambda.reply.statusCode = lambda.routed.response.statusCode
                /\ lambda.reply.headers = lambda.routed.response.headers
                /\ lambda.reply.body.json = lambda.routed.response.body
                /\ lambda.invoked = 0 => lambda.routed.response = NotFoundResponse

\* C26 witness: getDb failed for want of the URI; the invocation is answered
\* 500 with that message and the router was left alone.
C26_Witness ==
    /\ lambda.pc = "done"
    /\ lambda.db = "threw"
    /\ lambda.reply.statusCode = 500
    /\ lambda.reply.body.message = "Missing MongoDB URI"
    /\ RouterAtRest

\* reached: a failing controller answered 500 with its message
C26_RoutingFailureReached ==
    /\ lambda.pc = "done"
    /\ lambda.routed.kind = "threw"
    /\ lambda.invoked = 1
    /\ lambda.reply.statusCode = 500
    /\ lambda.reply.body.message = "Database error"

\* reached: the router's 404 returned as it is
C26_NotFoundReached ==
    /\ lambda.pc = "done"
    /\ lambda.invoked = 0
    /\ lambda.reply.statusCode = 404

\* reached: a controller's response returned as it is, in a second
\* invocation on the open connection
C26_PassedReached ==
    /\ lambda.pc = "done"
    /\ lambda.invoked = 1
    /\ lambda.reply.statusCode = 200
    /\ acquirers[Invoker].calls = 2

(***************************************************************************)
(* Properties of the configuration cache.                                  *)
(***************************************************************************)
\* a request for the URI is made only when none is cached, and one per
\* reset of the cache at most
OneRequestPerReset == fetches.uri <= 1 + mongoose.resets

\* the failed request stays: no step replaces it or asks again, closeDb
\* returns at once, and a getDb called now waits for that request and then
\* fails with its error
StickyFailure ==
    cache.uriPromise = "rejected" =>
        /\ cache' = cache
        /\ fetches'.uri = fetches.uri
        /\ \A c \in Callers :
              /\ (acquirers[c].pc = "idle" /\ acquirers'[c].pc # "idle") =>
                    acquirers'[c].pc \in {"awaitUri", "closed"}
              /\ (acquirers[c].pc = "awaitUri" /\ acquirers'[c].pc # "awaitUri") =>
                    /\ acquirers'[c].pc = "threw"
                    /\ acquirers'[c].error = "Missing MongoDB URI"

\* with the request failed no URI is cached and the flag is not set
FailureShared ==
    cache.uriPromise = "rejected" => (~cache.isConnected /\ ~cache.uri)

C27_ResetReached ==
    /\ mongoose.resets = 1
    /\ fetches.uri = 2

\* reached: two callers waiting for the one request
C27_SharedReached ==
    /\ \A c \in Callers : acquirers[c].pc = "awaitUri"
    /\ fetches.uri = 1

(***************************************************************************)
(* Properties of the tag filter against the stored tags.                   *)
(***************************************************************************)
Normalized(tag) == trim(toLowerCase(tag)) = tag

\* the recipe the caller created is in the listing
CreatedListed == \E k \in 1..Len(read.list) : read.list[k].id = result.value.id

\* the listing asked for the one tag t
AskedFor(t) ==
    /\ read.op = "getAllRecipes"
    /\ read.kind = "returned"
    /\ read.options.has
    /\ read.options.val.tags = TagsOption("array", <<t>>)

\* C28: the requested tags reach the filter verbatim while addRecipe stores
\* tags lowercased and trimmed: for a recipe created through addRecipe with
\* tag t, getAllRecipes({tags: [t]}) returns that recipe if and only if t is
\* already in normalized form.
C28_VerbatimFilter ==
    result.kind = "returned" =>
        \A k \in 1..Len(input0.tags.val) :
            LET t == input0.tags.val[k]
            IN  AskedFor(t) =>
                    /\ read.query.filter.tags = Some(<<t>>)
                    /\ CreatedListed <=> Normalized(t)

\* C28 witness: the recipe created with the tag 'A' is stored with 'a' and
\* is not in the listing of 'A'.
C28_Witness ==
    /\ result.kind = "returned"
    /\ input0.tags.val = << <<"A">> >>
    /\ result.value.tags = << <<"a">> >>
    /\ AskedFor(<<"A">>)
    /\ ~CreatedListed

\* reached: the recipe created with 'a' and 'B ' listed for 'a', after
\* another recipe
C28_ListedReached ==
    /\ result.kind = "returned"
    /\ Len(store) = 2
    /\ input0.tags.val = << <<"a">>, <<"B", " ">> >>
    /\ AskedFor(<<"a">>)
    /\ CreatedListed

(***************************************************************************)
(* Properties of the caller's input object under addRecipe.                *)
(***************************************************************************)
\* the steps and tags the caller's object holds after a call that passed
\* the uniqueness check
Mutated ==
    /\ recipeData.steps =
          (IF input0.steps.has /\ Len(input0.steps.val) > 0
           THEN Some(sortSteps(input0.steps.val)) ELSE input0.steps)
    /\ recipeData.tags =
          (IF input0.tags.has /\ Len(input0.tags.val) > 0
           THEN Some(ExpectedTags(input0.tags.val)) ELSE input0.tags)
    /\ recipeData.title = input0.title
    /\ recipeData.servings = input0.servings
    /\ recipeData.ingredients = input0.ingredients

DuplicateOrderFailed ==
    result.kind = "threw" /\ result.error = PlainError(DuplicateOrderMessage)

\* C29: when addRecipe fails with the duplicate-step-order error the
\* caller's input record is unchanged; in every call that passes that check
\* the caller's steps are sorted in place and its tags replaced by the
\* normalized sequence before the save, and the changes stay when the save
\* fails.
C29_ArgumentMutation ==
    Called =>
        /\ DuplicateOrderFailed => (recipeData = input0 /\ saves = << >>)
        /\ ~DuplicateOrderFailed =>
              /\ Mutated
              /\ saves # << >>
              /\ saves[1].data = recipeData

\* C29 witness: the save failed on the missing title, and the caller's
\* steps [2, 1] are left as [1, 2] and its tag 'B ' as 'b'.
C29_Witness ==
    /\ Called
    /\ result.kind = "threw"
    /\ saves # << >>
    /\ saves[1].rejection.name = "ValidationError"
    /\ Len(input0.steps.val) = 2
    /\ [k \in 1..2 |-> input0.steps.val[k].order] = <<2, 1>>
    /\ [k \in 1..2 |-> recipeData.steps.val[k].order] = <<1, 2>>
    /\ input0.tags = Some(<< <<"B", " ">> >>)
    /\ recipeData.tags = Some(<< <<"b">> >>)

\* reached: the duplicate-step-order failure with the object as it was,
\* the steps out of order and the tag unnormalized
C29_UntouchedReached ==
    /\ Called
    /\ DuplicateOrderFailed
    /\ Len(input0.steps.val) = 3
    /\ [k \in 1..3 |-> recipeData.steps.val[k].order] = <<2, 1, 2>>
    /\ recipeData.tags = Some(<< <<"B", " ">> >>)

(***************************************************************************)
(* Properties of generatePresignedUploadUrl.                               *)
(***************************************************************************)
Uploading == upload.pc # "idle"

AllowedType ==
    upload.contentType
        \in {"image/jpeg", "image/png", "image/jpg", "application/pdf"}

WithinLimit == upload.fileSize <= 10 * 1024 * 1024

ExtensionOf(contentType) ==
    CASE contentType = "image/png" -> ".png"
      [] contentType = "application/pdf" -> ".pdf"
      [] OTHER -> ".jpg"

NothingGenerated ==
    /\ upload.key = NoKey
    /\ upload.command = NoCommand
    /\ upload.value = NoPresigned

FailedOn(text) ==
    /\ upload.pc = "threw"
    /\ upload.error.message[1] = text

\* C30: generatePresignedUploadUrl checks the content type first and the
\* size second, before it generates a key or asks for a signed URL; with a
\* content type outside image/jpeg, image/png, image/jpg, application/pdf,
\* or a size above 10 * 1024 * 1024, it fails with no key and no URL (the
\* type's error when both are wrong), a size of exactly the limit passes,
\* and a call that returns gives a key ending in the extension of the
\* content type, the signed URL and expiresIn 300.
C30_UploadValidation ==
    Uploading =>
        /\ ~AllowedType =>
              /\ FailedOn("Type de fichier non autorisé. Types acceptés: ")
              /\ upload.trace = <<"validateFileType">>
              /\ NothingGenerated
        /\ (AllowedType /\ ~WithinLimit) =>
              /\ FailedOn("Fichier trop volumineux. Taille maximale: ")
              /\ upload.trace = <<"validateFileType", "validateFileSize">>
              /\ NothingGenerated
        /\ (AllowedType /\ WithinLimit) =>
              /\ upload.trace = <<"validateFileType", "validateFileSize",
                                  "generateFileName", "getSignedUrl">>
              /\ upload.pc = "threw" =>
                    /\ upload.error \in SigningErrors
                    /\ upload.value = NoPresigned
        /\ upload.pc = "returned" =>
              /\ AllowedType /\ WithinLimit
              /\ upload.value.key # NoKey
              /\ upload.value.key[Len(upload.value.key)]
                    = ExtensionOf(upload.contentType)
              /\ upload.value.expiresIn = 300
              /\ upload.value.uploadUrl # NoUploadUrl
              /\ upload.value.uploadUrl.command.Key = upload.value.key

\* C30 witness: an image/jpeg of exactly 10 * 1024 * 1024 bytes got its
\* URL, with a key ending in '.jpg' and expiresIn 300.
C30_Witness ==
    /\ upload.pc = "returned"
    /\ upload.contentType = "image/jpeg"
    /\ upload.fileSize = 10 * 1024 * 1024
    /\ upload.value.key[Len(upload.value.key)] = ".jpg"
    /\ upload.value.expiresIn = 300

\* reached: a text/plain file above the limit fails on its type
C30_TypeFirstReached ==
    /\ upload.contentType = "text/plain"
    /\ upload.fileSize = 10 * 1024 * 1024 + 1
    /\ FailedOn("Type de fichier non autorisé. Types acceptés: ")

\* reached: a PDF one byte above the limit fails on its size
C30_TooLargeReached ==
    /\ upload.contentType = "application/pdf"
    /\ upload.fileSize = 10 * 1024 * 1024 + 1
    /\ FailedOn("Fichier trop volumineux. Taille maximale: ")
    /\ upload.error.message = <<"Fichier trop volumineux. Taille maximale: ",
                                "10", "MB">>

====
